---- MODULE Spec2Model ----
(***************************************************************************)
(* A model of the training-management client (ATMS): the admin             *)
(* UserManagement screen, the CourseManagement screen and the useCourses   *)
(* hook, each running in browser clients against one shared document      *)
(* store.  The store is written by point writes (setDoc / updateDoc /      *)
(* addDoc / deleteDoc); every await of a handler is a point where other    *)
(* clients' steps interleave.                                              *)
(*                                                                         *)
(* Three specifications share the module, one per screen:                  *)
(*   SpecUsers    UserManagement.tsx                                       *)
(*   SpecCourses  CourseManagement (part_002, lines 1-548)                 *)
(*   SpecEnroll   useCourses        (part_002, lines 550-725)              *)
(* Each leaves the variables of the other screens as Init set them.        *)
(***************************************************************************)
EXTENDS Integers, Sequences, FiniteSets, TLC

VARIABLES
    \* ---- the document store and the Auth service (shared by all clients)
    users,          \* collection "users": doc id |-> document
    authEmail,      \* Auth accounts: uid |-> e-mail
    pendingUsers,   \* collection "pendingUsers": doc id |-> document
    activityLogs,   \* collection "activityLogs": number of documents
    \* ---- UserManagement, per admin client
    isSuperAdmin,   \* useState(false), line 40
    localUsers,     \* useState<User[]>([]), line 35: the last users snapshot
    addProc,        \* the handleAddUser call in flight
    opCount,        \* handler invocations so far (bounded by MaxOps)
    lastOp,         \* the handler run that ended last (history)
    \* ---- the store, as CourseManagement uses it
    courses,        \* collection "courses": doc id |-> document
    coursesCreated, \* how many course documents addDoc has created
    sessionsStore,  \* collection "sessions", ordered by createdAt descending
    now,            \* the clock (new Date()), in ticks
    \* ---- CourseManagement, one mounted screen
    cmSessions,     \* useState<Session[]>([]), line 74
    cmUsersSeen,    \* the users snapshot last handed to the draft listener
    draftRun,       \* the run of the draft listener in flight
    lastRun,        \* the run of the draft listener that ended last (history)
    \* ---- the store, as useCourses uses it
    enrollDoc,      \* the document enrollments/<uid> of the signed-in user
    storedDates,    \* how the SDK hands a stored date to the hook
    \* ---- useCourses, one mounted hook
    allCourses,     \* useState<Course[]>([]), line 585
    enrollments,    \* useState<Enrollment | null>(null), line 586
    enrolledCourseIds, \* useState<string[]>([]), line 587
    enrollSeen,     \* the enrollment snapshot last handed to the listener
    listenerRun,    \* the enrollment listener callback in flight
    lastSnap,       \* history: the last snapshot the enrollment listener took
    calls,          \* the enrollCourse / unenrollCourse calls in flight
    lastWrite       \* the last write of the enrollment document (history)

userVars == <<users, authEmail, pendingUsers, activityLogs, isSuperAdmin,
              localUsers, addProc, opCount, lastOp>>

courseVars == <<courses, coursesCreated, sessionsStore, now, cmSessions,
                cmUsersSeen, draftRun, lastRun>>

VARIABLES
    \* the feedbacks and hiddenMessages collections
    feedbackDocs,   \* feedbacks: id -> document
    fbWrites,       \* how many feedbacks writes the backend has stamped
    hiddenDocs,     \* hiddenMessages: key -> document
    \* the trainee's FeedbackForm
    form,           \* which version of the component is mounted
    trainerName,    \* state of the search version, lines 33-38
    trainerId,
    availableTrainers,
    suggestions,
    message,
    feedbacks,
    fbSub,          \* the subscription of the feedback listener
    fbFetch,        \* the fetch of the mount effect
    fbCall,         \* the handler call in flight
    fbEdited,       \* history: the message handleEdit loaded into the box
    hideRemoved,    \* history: the messages handleHideTrainer removed
    lastFb,         \* history: the last handler call of the form
    \* the trainer's TrainerFeedback
    version,        \* which version of the component is mounted
    messages,       \* state of part_000 lines 32-37
    reply,
    selectedTrainee,
    editingMessageId,
    hiddenMessageIds,
    trSub,          \* the subscription of the feedback listener
    hiddenFetch,    \* the calls of fetchHiddenMessages in flight
    trCall,         \* the handler call in flight
    trainerHid,     \* history: the messages handleHideMessage has hidden
    lastTr,         \* history: the last handler call of the screen
    \* the Sidebar
    currentUser,    \* useAuth().currentUser, held by its role
    activeSection,  \* the activeSection prop, set through onSectionChange
    isOpen,
    isMobile,
    menuShown,      \* the menuItems of the last render
    lastClick,      \* history: the last click on a menu button
    \* TrainingMaterials
    tmCourses,      \* the courses state, part_000 line 346
    tmFetch,        \* the fetch of the mount effect
    selectedCourse,
    uploadQueue,
    uploadProgress, \* the names that have a progress value
    uploadingFiles, \* the names whose flag is set
    tmUploads,      \* the uploads in flight: a FileReader, then an addDoc
    materialDocs,   \* the trainingMaterials collection
    queuedAs,       \* history: the course selected when item n was queued
    uploaded,       \* history: the items whose document has been written
    lastFiles,      \* history: the last handleFiles call
    lastUp          \* history: the last upload that ended

enrollVars == <<enrollDoc, storedDates, allCourses, enrollments,
                enrolledCourseIds, enrollSeen, listenerRun, lastSnap, calls,
                lastWrite>>

storeVars == <<feedbackDocs, fbWrites, hiddenDocs>>

traineeVars == <<form, trainerName, trainerId, availableTrainers, suggestions,
                 message, feedbacks, fbSub, fbFetch, fbCall, fbEdited,
                 hideRemoved, lastFb>>

trainerVars == <<version, messages, reply, selectedTrainee, editingMessageId,
                 hiddenMessageIds, trSub, hiddenFetch, trCall, trainerHid,
                 lastTr>>

feedbackVars == <<storeVars, traineeVars, trainerVars>>

sidebarVars == <<currentUser, activeSection, isOpen, isMobile, menuShown,
                 lastClick>>

materialVars == <<tmCourses, tmFetch, selectedCourse, uploadQueue,
                  uploadProgress, uploadingFiles, tmUploads, materialDocs,
                  queuedAs, uploaded, lastFiles, lastUp>>

nonUserVars == <<courseVars, enrollVars, feedbackVars, sidebarVars,
                 materialVars>>

\* what the CourseManagement screen's actions leave alone
offCourses == <<enrollVars, feedbackVars, sidebarVars, materialVars>>

vars == <<userVars, courseVars, enrollVars, feedbackVars, sidebarVars,
         materialVars>>

(***************************************************************************)
(* Bounds                                                                  *)
(***************************************************************************)
\* how many handler invocations (add / save edit / delete) one run holds
MaxOps == 2
\* how many course documents one run creates
MaxCourses == 2
\* the last tick of the clock, and the ticks of one calendar day
MaxTime == 3
TicksPerDay == 2

(***************************************************************************)
(* UserManagement.tsx                                                      *)
(***************************************************************************)
\* The two admin clients and the uid each is signed in with
\* (auth.currentUser, line 49, held fixed for the life of the client).
Clients == {"a1", "a2"}
CurrentUid(c) == IF c = "a1" THEN "s1" ELSE "u2"

InitUids == {"s1", "u2", "u3"}
NewUidSeq == <<"n1">>
EditNames == {<<"R">>}
EditEmails == {"e4"}
FormRoles == {"trainee", "trainer", "admin"}

\* A users document.  isSuperAdmin is FALSE when the field is absent.
UserDoc(uid, name, email, role, super) ==
    [uid |-> uid, displayName |-> name, email |-> email, role |-> role,
     isSuperAdmin |-> super]

\* snapshot.docs.map(doc => ({id: doc.id, ...doc.data()})), lines 70-76
RowsOf(coll) == [id \in DOMAIN coll |->
    [id |-> id, uid |-> coll[id].uid, displayName |-> coll[id].displayName,
     email |-> coll[id].email, role |-> coll[id].role,
     isSuperAdmin |-> coll[id].isSuperAdmin]]

NoRows == [id \in {} |-> 0]

Remove(coll, id) == [x \in DOMAIN coll \ {id} |-> coll[x]]

IdleAdd == [pc |-> "idle"]
NoOp == [op |-> "none"]

\* The stored super-admin flag of a uid (FALSE when it has no document).
StoredSuper(uid) == uid \in DOMAIN users /\ users[uid].isSuperAdmin

InitUsers(roles3) ==
    /\ \E r3 \in roles3 :
         users = ("s1" :> UserDoc("s1", <<"S">>, "e1", "admin", TRUE))
              @@ ("u2" :> UserDoc("u2", <<"B">>, "e2", "admin", FALSE))
              @@ ("u3" :> UserDoc("u3", <<"U">>, "e3", r3, FALSE))
    /\ authEmail = ("s1" :> "e1") @@ ("u2" :> "e2") @@ ("u3" :> "e3")
    /\ pendingUsers = NoRows
    /\ activityLogs = 0
    /\ isSuperAdmin = [c \in Clients |-> FALSE]
    /\ localUsers = [c \in Clients |-> NoRows]
    /\ addProc = [c \in Clients |-> IdleAdd]
    /\ opCount = 0
    /\ lastOp = NoOp

\* fetchSuperAdminStatus, lines 52-63: getDoc answers at some time after the
\* mount and the state is set from the stored flag.  (The flag of a document
\* never changes, so an answer for a caller without it leaves the state as
\* it is.)
FetchSuperAdminStatus(c) ==
    /\ UNCHANGED nonUserVars
    /\ ~isSuperAdmin[c]
    /\ CurrentUid(c) \in DOMAIN users
    /\ isSuperAdmin' = [isSuperAdmin EXCEPT
                          ![c] = (users[CurrentUid(c)].isSuperAdmin = TRUE)]
    /\ UNCHANGED <<users, authEmail, pendingUsers, activityLogs, localUsers,
                   addProc, opCount, lastOp>>

\* the onSnapshot callback of the users query, lines 66-82
UsersSnapshot(c) ==
    /\ UNCHANGED nonUserVars
    /\ localUsers[c] # RowsOf(users)
    /\ localUsers' = [localUsers EXCEPT ![c] = RowsOf(users)]
    /\ UNCHANGED <<users, authEmail, pendingUsers, activityLogs, isSuperAdmin,
                   addProc, opCount, lastOp>>

\* addActivityLog, lines 85-102: the write may be rejected, which is caught
\* and logged to the console only.
LogsAfter(ok) == IF ok THEN activityLogs + 1 ELSE activityLogs

(* ---------------- handleAddUser, lines 105-168 ---------------- *)
\* The form (newUser, lines 42-47) as it stands when Save User is clicked.
\* The onChange of the role select (lines 306-311) stores whatever value it
\* is given; the forms below cover every role of its type.
AddForms ==
    {[displayName |-> <<"N">>, email |-> e, password |-> "pw", role |-> r] :
        e \in {"e3", "e4"}, r \in FormRoles}
    \cup {[displayName |-> <<"N">>, email |-> "e4", password |-> "", role |-> "trainee"]}

\* line 107: !displayName || !email || !password
FormIncomplete(f) == f.displayName = <<>> \/ f.email = "" \/ f.password = ""

\* line 123 without its test: every role may be created
MayCreateRole_NoGuard(role, super) == TRUE

\* line 123: role === "admin" && !isSuperAdmin refuses the request
MayCreateRole(role, super) == ~(role = "admin" /\ ~super)

\* the awaited writes in another order: pendingUsers before users
AddStepAfter_PendingFirst(pc) ==
    IF pc = "createAuth" THEN "setPending"
    ELSE IF pc = "setPending" THEN "setUsers"
    ELSE "log"

\* the order of the awaited writes of lines 129-159: the account (line
\* 129), users/{uid} (line 140), pendingUsers/{uid} (line 146), the log
AddStepAfter(pc) ==
    IF pc = "createAuth" THEN "setUsers"
    ELSE IF pc = "setUsers" THEN "setPending"
    ELSE "log"

\* The end of a handleAddUser call: what it asked for and what it did; the
\* step it returned from, the records it made, and whether the account and
\* the two documents of its uid exist when it returns.
AddEnded(c, p, outcome) ==
    /\ addProc' = [addProc EXCEPT ![c] = IdleAdd]
    /\ lastOp' = [op |-> "add", client |-> c, role |-> p.form.role,
                  email |-> p.form.email, localSuper |-> p.localSuper,
                  outcome |-> outcome, wrote |-> p.wrote, dup |-> p.dup,
                  uid |-> p.uid, step |-> p.pc, made |-> p.made,
                  account |-> p.uid \in DOMAIN authEmail,
                  userDoc |-> p.uid \in DOMAIN users,
                  pendingDoc |-> p.uid \in DOMAIN pendingUsers]

\* Save User clicked: lines 106-110, up to the await of getDocs (line 116).
AddUserStart(c, f) ==
    /\ UNCHANGED nonUserVars
    /\ addProc[c].pc = "idle"
    /\ opCount < MaxOps
    /\ opCount' = opCount + 1
    /\ LET p == [pc |-> "query", form |-> f, localSuper |-> isSuperAdmin[c],
                 uid |-> "", wrote |-> FALSE, dup |-> FALSE, made |-> {}]
       IN IF FormIncomplete(f)
          THEN AddEnded(c, p, "incomplete")
          ELSE addProc' = [addProc EXCEPT ![c] = p] /\ UNCHANGED lastOp
    /\ UNCHANGED <<users, authEmail, pendingUsers, activityLogs, isSuperAdmin,
                   localUsers>>

\* getDocs answers (line 116); lines 117-126 run on its result.
AddUserQuery(c) ==
    LET p == addProc[c]
        found == {id \in DOMAIN users : users[id].email = p.form.email}
    IN /\ p.pc = "query"
       /\ UNCHANGED nonUserVars
       /\ IF found # {}
          THEN AddEnded(c, p, "exists")
          ELSE IF ~MayCreateRole(p.form.role, p.localSuper)
          THEN AddEnded(c, p, "refusedAdmin")
          ELSE addProc' = [addProc EXCEPT ![c].pc = "createAuth"]
               /\ UNCHANGED lastOp
       /\ UNCHANGED <<users, authEmail, pendingUsers, activityLogs, isSuperAdmin,
                      localUsers, opCount>>

AuthEmails == {authEmail[u] : u \in DOMAIN authEmail}
NextNewUid == NewUidSeq[Cardinality(DOMAIN authEmail \ InitUids) + 1]

\* createUserWithEmailAndPassword (line 129): the Auth service gives the
\* account a fresh uid, and rejects an e-mail that already has an account.
AddUserCreateAuth(c) ==
    LET p == addProc[c] IN
    /\ UNCHANGED nonUserVars
    /\ p.pc = "createAuth"
    /\ p.form.email \notin AuthEmails
    /\ Cardinality(DOMAIN authEmail \ InitUids) < Len(NewUidSeq)
    /\ authEmail' = authEmail @@ (NextNewUid :> p.form.email)
    /\ addProc' = [addProc EXCEPT ![c] =
                     [p EXCEPT !.pc = AddStepAfter("createAuth"),
                               !.uid = NextNewUid, !.wrote = TRUE,
                               !.made = @ \cup {"auth"}]]
    /\ UNCHANGED <<users, pendingUsers, activityLogs, isSuperAdmin, localUsers, opCount, lastOp>>

\* setDoc(doc(db, "users", uid), ...), lines 132-144: role is "pending".
AddUserSetUsers(c) ==
    LET p == addProc[c] IN
    /\ UNCHANGED nonUserVars
    /\ p.pc = "setUsers"
    /\ users' = [id \in DOMAIN users \cup {p.uid} |->
                   IF id = p.uid
                   THEN UserDoc(p.uid, p.form.displayName, p.form.email, "pending", FALSE)
                   ELSE users[id]]
    /\ addProc' = [addProc EXCEPT ![c] =
                     [p EXCEPT !.pc = AddStepAfter("setUsers"),
                               !.made = @ \cup {"users"},
                               !.dup = \E id \in DOMAIN users :
                                          users[id].email = p.form.email]]
    /\ UNCHANGED <<authEmail, pendingUsers, activityLogs, isSuperAdmin,
                   localUsers, opCount, lastOp>>

\* setDoc(doc(db, "pendingUsers", uid), ...), lines 146-152
AddUserSetPending(c) ==
    LET p == addProc[c] IN
    /\ UNCHANGED nonUserVars
    /\ p.pc = "setPending"
    /\ pendingUsers' = [id \in DOMAIN pendingUsers \cup {p.uid} |->
                          IF id = p.uid
                          THEN [uid |-> p.uid, displayName |-> p.form.displayName,
                                email |-> p.form.email, role |-> p.form.role]
                          ELSE pendingUsers[id]]
    /\ addProc' = [addProc EXCEPT ![c] =
                     [p EXCEPT !.pc = AddStepAfter("setPending"),
                               !.made = @ \cup {"pending"}]]
    /\ UNCHANGED <<users, authEmail, activityLogs, isSuperAdmin, localUsers, opCount, lastOp>>

\* addActivityLog (lines 154-159), then the form reset and the alert.
AddUserLog(c) ==
    LET p == addProc[c] IN
    /\ UNCHANGED nonUserVars
    /\ p.pc = "log"
    /\ activityLogs' = LogsAfter(TRUE)
    /\ AddEnded(c, p, "added")
    /\ UNCHANGED <<users, authEmail, pendingUsers, isSuperAdmin, localUsers, opCount>>

\* An awaited backend call of lines 116-152 is rejected: the catch of
\* lines 164-167 ends the handler.  createUserWithEmailAndPassword is
\* rejected for certain when the e-mail already has an account.
AddUserReject(c) ==
    LET p == addProc[c] IN
    /\ UNCHANGED nonUserVars
    /\ p.pc \in {"query", "createAuth", "setUsers", "setPending"}
    /\ AddEnded(c, p, "error")
    /\ UNCHANGED <<users, authEmail, pendingUsers, activityLogs, isSuperAdmin,
                   localUsers, opCount>>

(* ---------------- the edit form and handleSaveEdit ---------------- *)
\* lines 401-402: the edit icon is dead on a super admin's row for a caller
\* who is not known to be a super admin.
DisableEdit(c, row) == row.isSuperAdmin /\ ~isSuperAdmin[c]

\* The inputs of the edit form, lines 335-364: an onChange replaces one
\* field of editingUser and leaves id, uid and isSuperAdmin alone.  The
\* forms reached from an opened row by no change or by one change (further
\* changes are further saves):
EditForms(row) ==
    {row}
    \cup {[row EXCEPT !.displayName = n] : n \in EditNames}
    \cup {[row EXCEPT !.email = m] : m \in EditEmails}
    \cup {[row EXCEPT !.role = r] : r \in FormRoles}

\* lines 176-183: the guard of handleSaveEdit, on the form's own fields
EditRefused(e, c) ==
    e.role = "admin" /\ e.uid # CurrentUid(c) /\ ~isSuperAdmin[c]

\* What a handleSaveEdit call did: the stored document before it, whether
\* the caller's stored document carries the super-admin flag, and whether
\* the target document was changed.
EditEnded(c, e, outcome) ==
    lastOp' = [op |-> "saveEdit", client |-> c, target |-> e.id,
               existed |-> e.id \in DOMAIN users,
               storedRole |-> IF e.id \in DOMAIN users THEN users[e.id].role ELSE "",
               callerSuper |-> StoredSuper(CurrentUid(c)),
               outcome |-> outcome,
               changed |-> e.id \in DOMAIN users /\ users'[e.id] # users[e.id]]

\* The edit icon of a row of the caller's users list (lines 427-436:
\* setEditingUser(user)), the changes typed into the form, and Save Changes:
\* handleSaveEdit, lines 171-212, on the form e.  updateDoc is rejected when
\* the document is gone, updateEmail when the e-mail belongs to another
\* account; either may also be rejected by the backend; the catch ends the
\* handler.
HandleSaveEdit(c, id, e) ==
    /\ UNCHANGED nonUserVars
    /\ id \in DOMAIN localUsers[c]
    /\ ~DisableEdit(c, localUsers[c][id])
    /\ e \in EditForms(localUsers[c][id])
    /\ opCount < MaxOps
    /\ opCount' = opCount + 1
    /\ LET self == CurrentUid(c) = e.uid /\ CurrentUid(c) \in DOMAIN authEmail
                   /\ authEmail[CurrentUid(c)] # e.email
       IN IF EditRefused(e, c)
          THEN /\ UNCHANGED <<users, authEmail, activityLogs>>
               /\ EditEnded(c, e, "refused")
          ELSE \/ /\ UNCHANGED <<users, authEmail, activityLogs>>
                  /\ EditEnded(c, e, "updateRejected")
               \/ /\ e.id \in DOMAIN users
                  /\ users' = [users EXCEPT ![e.id] =
                                 [@ EXCEPT !.displayName = e.displayName,
                                           !.email = e.email, !.role = e.role]]
                  /\ \/ /\ self
                        /\ UNCHANGED <<authEmail, activityLogs>>
                        /\ EditEnded(c, e, "emailRejected")
                     \/ /\ self => e.email \notin AuthEmails
                        /\ authEmail' = IF self
                                        THEN [authEmail EXCEPT ![CurrentUid(c)] = e.email]
                                        ELSE authEmail
                        /\ activityLogs' = LogsAfter(TRUE)
                        /\ EditEnded(c, e, "updated")
    /\ UNCHANGED <<pendingUsers, isSuperAdmin, localUsers, addProc>>

(* ---------------- handleDeleteUser, lines 215-247 ---------------- *)
\* lines 403-404: the delete icon is dead like the edit icon
DisableDelete(c, row) == row.isSuperAdmin /\ ~isSuperAdmin[c]

\* lines 219-230: the two refusals of handleDeleteUser, on the clicked row
DeleteRefused(user, c) ==
    \/ user.isSuperAdmin
    \/ (user.role = "admin" /\ ~isSuperAdmin[c])
    \/ user.uid = CurrentUid(c)

DeleteEnded(c, user, outcome) ==
    lastOp' = [op |-> "delete", client |-> c, target |-> user.id,
               existed |-> user.id \in DOMAIN users,
               storedRole |-> IF user.id \in DOMAIN users THEN users[user.id].role ELSE "",
               storedSuper |-> StoredSuper(user.id),
               callerSuper |-> StoredSuper(CurrentUid(c)),
               outcome |-> outcome,
               deleted |-> user.id \in DOMAIN users /\ user.id \notin DOMAIN users',
               wrote |-> <<users', authEmail', pendingUsers', activityLogs'>>
                         # <<users, authEmail, pendingUsers, activityLogs>>]

\* The delete icon of a row of the users table (lines 437-446), the
\* confirmation and the handler.  The row is the one the caller's last
\* snapshot holds; deleteDoc may be rejected, which the catch reports.
HandleDeleteUser(c, id, confirmed) ==
    /\ UNCHANGED nonUserVars
    /\ id \in DOMAIN localUsers[c]
    /\ ~DisableDelete(c, localUsers[c][id])
    /\ opCount < MaxOps
    /\ opCount' = opCount + 1
    /\ UNCHANGED <<authEmail, pendingUsers, isSuperAdmin, localUsers, addProc>>
    /\ LET user == localUsers[c][id] IN
       IF ~confirmed
       THEN /\ UNCHANGED <<users, activityLogs>>
            /\ DeleteEnded(c, user, "declined")
       ELSE IF DeleteRefused(user, c)
       THEN /\ UNCHANGED <<users, activityLogs>>
            /\ DeleteEnded(c, user, "refused")
       ELSE \/ /\ UNCHANGED <<users, activityLogs>>
               /\ DeleteEnded(c, user, "deleteRejected")
            \/ /\ users' = Remove(users, user.id)
               /\ activityLogs' = LogsAfter(TRUE)
               /\ DeleteEnded(c, user, "deleted")

NextUsers ==
    \E c \in Clients :
       \/ FetchSuperAdminStatus(c)
       \/ UsersSnapshot(c)
       \/ \E f \in AddForms : AddUserStart(c, f)
       \/ AddUserQuery(c)
       \/ AddUserCreateAuth(c)
       \/ AddUserSetUsers(c)
       \/ AddUserSetPending(c)
       \/ AddUserLog(c)
       \/ AddUserReject(c)
       \/ \E id \in DOMAIN localUsers[c] :
             \E e \in EditForms(localUsers[c][id]) : HandleSaveEdit(c, id, e)
       \/ \E id \in DOMAIN localUsers[c], ok \in BOOLEAN : HandleDeleteUser(c, id, ok)

(***************************************************************************)
(* CourseManagement (part_002, lines 1-548)                                *)
(***************************************************************************)
\* Strings the code trims or lower-cases are sequences of characters.
LowerOf(ch) ==
    CASE ch = "U" -> "u" [] ch = "R" -> "r" [] ch = "S" -> "s"
      [] ch = "B" -> "b" [] ch = "N" -> "n" [] ch = "T" -> "t"
      [] ch = "X" -> "x" [] OTHER -> ch

toLowerCase(s) == [i \in 1..Len(s) |-> LowerOf(s[i])]

RECURSIVE trimStart(_)
trimStart(s) == IF s # <<>> /\ Head(s) = " " THEN trimStart(Tail(s)) ELSE s

RECURSIVE trimEnd(_)
trimEnd(s) ==
    IF s # <<>> /\ s[Len(s)] = " " THEN trimEnd(SubSeq(s, 1, Len(s) - 1)) ELSE s

trim(s) == trimEnd(trimStart(s))

\* line 26: (s || "").toString().trim().toLowerCase()
normalize(s) == toLowerCase(trim(s))

\* Date.setHours(0, 0, 0, 0), lines 167 and 171-172: the start of the day
setHours0(t) == t - (t % TicksPerDay)

Times == 0..MaxTime

Session(ts, te) == [trainStart |-> ts, trainEnd |-> te]

\* The sessions collection as the query of line 88 orders it (newest first).
\* The screens of this model create no session.
SessionStores ==
    {<<>>, <<Session(1, 2), Session(0, 3)>>}

NoRun == [pc |-> "idle"]
NoRunYet == [outcome |-> "none"]

InitCourses(stores, initial) ==
    /\ courses = initial
    /\ coursesCreated = Cardinality(DOMAIN initial)
    /\ sessionsStore \in stores
    /\ now = 0
    /\ cmSessions = <<>>
    /\ cmUsersSeen = NoRows
    /\ draftRun = NoRun
    /\ lastRun = NoRunYet

\* time passes
Tick ==
    /\ UNCHANGED offCourses
    /\ now < MaxTime
    /\ now' = now + 1
    /\ UNCHANGED <<userVars, courses, coursesCreated, sessionsStore, cmSessions,
                   cmUsersSeen, draftRun, lastRun>>

\* the onSnapshot callback of the sessions query, lines 87-108
SessionsSnapshot ==
    /\ UNCHANGED offCourses
    /\ cmSessions # sessionsStore
    /\ cmSessions' = sessionsStore
    /\ UNCHANGED <<userVars, courses, coursesCreated, sessionsStore, now,
                   cmUsersSeen, draftRun, lastRun>>

\* lines 147-163
validateDatesWithSessions(sessions, startDate, endDate) ==
    IF Len(sessions) = 0 THEN TRUE
    ELSE LET session == sessions[1] IN
         IF startDate < session.trainStart THEN FALSE
         ELSE IF endDate > session.trainEnd THEN FALSE
         ELSE IF endDate < startDate THEN FALSE
         ELSE TRUE

\* computeStatus comparing the instants themselves, not the days
computeStatus_Untruncated(trainerExists, startDate, endDate, clock) ==
    IF ~trainerExists THEN "draft"
    ELSE IF clock > endDate THEN "completed" ELSE "active"

\* lines 165-177; clock is what new Date() reads
computeStatus(trainerExists, startDate, endDate, clock) ==
    LET today == setHours0(clock)
        s == setHours0(startDate)
        e == setHours0(endDate)
    IN IF ~trainerExists THEN "draft"
       ELSE IF today > e THEN "completed"
       ELSE IF today >= s /\ today <= e THEN "active"
       ELSE "active"

\* The order in which a query hands out the user documents (by document id).
UidOrder == <<"n1", "s1", "u2", "u3">>

FirstUid(S) ==
    UidOrder[CHOOSE i \in 1..Len(UidOrder) :
                /\ UidOrder[i] \in S
                /\ \A j \in 1..(i - 1) : UidOrder[j] \notin S]

\* lines 199-205: the query matches displayName exactly
getInstructorUid(instructorName) ==
    LET found == {id \in DOMAIN users :
                     /\ users[id].displayName = instructorName
                     /\ users[id].role = "trainer"}
    IN IF found # {} THEN FirstUid(found) ELSE ""

\* defaultCourseData (lines 28-41) with the fields the form sets
CourseDoc(f, instructorId, status) ==
    [title |-> f.title, instructorName |-> f.instructorName,
     instructorId |-> instructorId, category |-> "", hours |-> 0,
     level |-> "beginner", startDate |-> f.startDate, endDate |-> f.endDate,
     materials |-> <<>>, status |-> status]

\* What the course form holds when its button is clicked (lines 420-490):
\* a title, an instructor name and two dates picked without restriction.
\* The names: a user's name as stored, the same name in other case and
\* spacing, and nobody's name.  The dates: inside the newest session, end
\* before start, start before the session, end after the session.
CourseNames == {<<"U">>, <<"u", " ">>, <<"X">>}
FormDatePairs == {<<1, 2>>, <<2, 1>>, <<0, 2>>, <<1, 3>>}

CourseForms ==
    {[title |-> <<"T">>, instructorName |-> n, startDate |-> d[1], endDate |-> d[2]] :
        n \in CourseNames, d \in FormDatePairs}
    \cup {[title |-> <<" ">>, instructorName |-> <<"U">>, startDate |-> 1, endDate |-> 2],
          [title |-> <<"T">>, instructorName |-> <<" ">>, startDate |-> 1, endDate |-> 2]}

\* The end of a handleAddCourse / handleSaveEdit / handleDeleteCourse call.
CourseOpEnded(op, id, f, outcome, trainerExists, status) ==
    lastOp' = [op |-> op, target |-> id, form |-> f, sessions |-> cmSessions,
               outcome |-> outcome, wrote |-> courses' # courses,
               trainerExists |-> trainerExists, status |-> status,
               clock |-> IF status = "" THEN 0 ELSE now]

\* handleAddCourse, lines 210-253.  getDocs or addDoc may be rejected, which
\* the catch reports.
HandleAddCourse(f) ==
    /\ UNCHANGED offCourses
    /\ opCount < MaxOps
    /\ coursesCreated < MaxCourses
    /\ opCount' = opCount + 1
    /\ UNCHANGED <<users, authEmail, pendingUsers, isSuperAdmin, localUsers,
                   addProc, sessionsStore, now, cmSessions, cmUsersSeen,
                   draftRun, lastRun>>
    /\ LET id == coursesCreated + 1
           instructorId == getInstructorUid(f.instructorName)
           trainerExists == instructorId # ""
           status == computeStatus(trainerExists, f.startDate, f.endDate, now)
       IN IF trim(f.title) = <<>> \/ trim(f.instructorName) = <<>>
          THEN /\ UNCHANGED <<courses, coursesCreated, activityLogs>>
               /\ CourseOpEnded("addCourse", 0, f, "required", FALSE, "")
          ELSE IF ~validateDatesWithSessions(cmSessions, f.startDate, f.endDate)
          THEN /\ UNCHANGED <<courses, coursesCreated, activityLogs>>
               /\ CourseOpEnded("addCourse", 0, f, "invalidDates", FALSE, "")
          ELSE \/ /\ UNCHANGED <<courses, coursesCreated, activityLogs>>
                  /\ CourseOpEnded("addCourse", 0, f, "error", FALSE, "")
               \/ /\ courses' = courses @@ (id :> CourseDoc(f, instructorId, status))
                  /\ coursesCreated' = coursesCreated + 1
                  /\ activityLogs' = LogsAfter(TRUE)
                  /\ CourseOpEnded("addCourse", id, f, "added", trainerExists, status)

\* handleSaveEdit of CourseManagement, lines 258-293, on the edit form of a
\* course of the local list (which may hold a course that is gone from the
\* store).  updateDoc is rejected when the document is gone.
HandleSaveEditCourse(id, f) ==
    /\ UNCHANGED offCourses
    /\ opCount < MaxOps
    /\ id \in 1..coursesCreated
    /\ opCount' = opCount + 1
    /\ UNCHANGED <<users, authEmail, pendingUsers, isSuperAdmin, localUsers,
                   addProc, coursesCreated, sessionsStore, now, cmSessions,
                   cmUsersSeen, draftRun, lastRun>>
    /\ LET instructorId == getInstructorUid(f.instructorName)
           trainerExists == instructorId # ""
           status == computeStatus(trainerExists, f.startDate, f.endDate, now)
       IN IF trim(f.instructorName) = <<>>
          THEN /\ UNCHANGED <<courses, activityLogs>>
               /\ CourseOpEnded("saveCourse", id, f, "required", FALSE, "")
          ELSE IF ~validateDatesWithSessions(cmSessions, f.startDate, f.endDate)
          THEN /\ UNCHANGED <<courses, activityLogs>>
               /\ CourseOpEnded("saveCourse", id, f, "invalidDates", FALSE, "")
          ELSE \/ /\ UNCHANGED <<courses, activityLogs>>
                  /\ CourseOpEnded("saveCourse", id, f, "error", FALSE, "")
               \/ /\ id \in DOMAIN courses
                  /\ courses' = [courses EXCEPT ![id] =
                        [@ EXCEPT !.title = f.title,
                                  !.instructorName = f.instructorName,
                                  !.startDate = f.startDate,
                                  !.endDate = f.endDate,
                                  !.instructorId = instructorId,
                                  !.status = status]]
                  /\ activityLogs' = LogsAfter(TRUE)
                  /\ CourseOpEnded("saveCourse", id, f, "updated", trainerExists, status)

\* handleDeleteCourse, lines 298-309
HandleDeleteCourse(id, confirmed) ==
    /\ UNCHANGED offCourses
    /\ opCount < MaxOps
    /\ id \in DOMAIN courses
    /\ opCount' = opCount + 1
    /\ UNCHANGED <<users, authEmail, pendingUsers, isSuperAdmin, localUsers,
                   addProc, coursesCreated, sessionsStore, now, cmSessions,
                   cmUsersSeen, draftRun, lastRun>>
    /\ IF ~confirmed
       THEN /\ UNCHANGED <<courses, activityLogs>>
            /\ CourseOpEnded("deleteCourse", id, <<>>, "declined", FALSE, "")
       ELSE \/ /\ UNCHANGED <<courses, activityLogs>>
               /\ CourseOpEnded("deleteCourse", id, <<>>, "error", FALSE, "")
            \/ /\ courses' = Remove(courses, id)
               /\ activityLogs' = LogsAfter(TRUE)
               /\ CourseOpEnded("deleteCourse", id, <<>>, "deleted", FALSE, "")

(* ------------- the draft listener, lines 314-367 ------------- *)
\* lines 317-320: what the listener keeps of a users snapshot
CmUserRows(coll) == [id \in DOMAIN coll |->
    [id |-> id, displayName |-> coll[id].displayName, role |-> coll[id].role]]

\* users.find(...) without the test of the role
matchedUser_AnyRole(rows, instructorName) ==
    LET found == {id \in DOMAIN rows :
                     normalize(rows[id].displayName) = normalize(instructorName)}
    IN IF found # {} THEN FirstUid(found) ELSE ""

\* lines 331-335: users.find(...) on normalized names; "" when none matches
matchedUser(rows, instructorName) ==
    LET found == {id \in DOMAIN rows :
                     /\ normalize(rows[id].displayName) = normalize(instructorName)
                     /\ rows[id].role = "trainer"}
    IN IF found # {} THEN FirstUid(found) ELSE ""

\* The users listener fires with a snapshot (at the mount, and after every
\* change of the collection); lines 316-322.  Runs are taken one at a time.
DraftListenerFire ==
    /\ UNCHANGED offCourses
    /\ draftRun.pc = "idle"
    /\ cmUsersSeen # CmUserRows(users)
    /\ cmUsersSeen' = CmUserRows(users)
    /\ draftRun' = IF DOMAIN users = {} THEN NoRun
                   ELSE [pc |-> "query", users |-> CmUserRows(users)]
    /\ UNCHANGED <<userVars, courses, coursesCreated, sessionsStore, now,
                   cmSessions, lastRun>>

DraftRunEnded(run, outcome) ==
    /\ draftRun' = NoRun
    /\ lastRun' = [outcome |-> outcome, users |-> run.users,
                   drafts |-> run.drafts, written |-> run.written]

\* getDocs of the draft query answers, lines 324-327
DraftListenerQuery ==
    /\ UNCHANGED offCourses
    /\ draftRun.pc = "query"
    /\ LET IsDraft(id) == id \in DOMAIN courses /\ courses[id].status = "draft"
           ids == SelectSeq([i \in 1..coursesCreated |-> i], IsDraft)
           drafts == [i \in 1..Len(ids) |->
                        [id |-> ids[i],
                         status |-> courses[ids[i]].status,
                         instructorName |-> courses[ids[i]].instructorName,
                         startDate |-> courses[ids[i]].startDate,
                         endDate |-> courses[ids[i]].endDate]]
           run == [pc |-> "loop", users |-> draftRun.users, drafts |-> drafts,
                   next |-> 1, written |-> NoRows]
       IN IF drafts = <<>>
          THEN DraftRunEnded(run, "completed")
          ELSE draftRun' = run /\ UNCHANGED lastRun
    /\ UNCHANGED <<userVars, courses, coursesCreated, sessionsStore, now,
                   cmSessions, cmUsersSeen>>

\* one turn of the loop of lines 329-365
DraftListenerStep ==
    /\ UNCHANGED offCourses
    /\ draftRun.pc = "loop"
    /\ LET d == draftRun.drafts[draftRun.next]
           m == matchedUser(draftRun.users, d.instructorName)
           newStatus == computeStatus(TRUE, d.startDate, d.endDate, now)
           run == [draftRun EXCEPT
                      !.next = @ + 1,
                      !.written = IF m = "" THEN @
                                  ELSE @ @@ (d.id :>
                                         [instructorId |-> courses'[d.id].instructorId,
                                          status |-> courses'[d.id].status,
                                          clock |-> now])]
       IN /\ IF m = ""
             THEN UNCHANGED <<courses, activityLogs>>
             ELSE /\ d.id \in DOMAIN courses
                  /\ courses' = [courses EXCEPT ![d.id] =
                                   [@ EXCEPT !.instructorId = m, !.status = newStatus]]
                  /\ activityLogs' = LogsAfter(TRUE)
          /\ IF run.next > Len(run.drafts)
             THEN DraftRunEnded(run, "completed")
             ELSE draftRun' = run /\ UNCHANGED lastRun
    /\ UNCHANGED <<users, authEmail, pendingUsers, isSuperAdmin, localUsers,
                   addProc, opCount, lastOp, coursesCreated, sessionsStore, now,
                   cmSessions, cmUsersSeen>>

\* getDocs or updateDoc is rejected (updateDoc for certain when the course is
\* gone): the callback has no catch, the run stops where it is.
DraftListenerReject ==
    /\ UNCHANGED offCourses
    /\ draftRun.pc \in {"query", "loop"}
    /\ LET run == IF draftRun.pc = "query"
                  THEN [users |-> draftRun.users, drafts |-> <<>>, written |-> NoRows]
                  ELSE draftRun
       IN /\ draftRun.pc = "loop" =>
                matchedUser(draftRun.users,
                            draftRun.drafts[draftRun.next].instructorName) # ""
          /\ DraftRunEnded(run, "failed")
    /\ UNCHANGED <<userVars, courses, coursesCreated, sessionsStore, now,
                   cmSessions, cmUsersSeen>>

\* The CourseManagement screen, with the UserManagement screen of the super
\* admin's client changing the role of user u3 beside it.
RoleEdits(row) == {e \in EditForms(row) : e.role # row.role}

NextCourses ==
    \/ UsersSnapshot("a1")
    \/ \E id \in DOMAIN localUsers["a1"] \cap {"u3"} :
          \E e \in RoleEdits(localUsers["a1"][id]) : HandleSaveEdit("a1", id, e)
    \/ Tick
    \/ SessionsSnapshot
    \/ \E f \in CourseForms : HandleAddCourse(f)
    \/ \E id \in 1..coursesCreated : \E f \in CourseForms : HandleSaveEditCourse(id, f)
    \/ \E id \in DOMAIN courses, ok \in BOOLEAN : HandleDeleteCourse(id, ok)
    \/ DraftListenerFire
    \/ DraftListenerQuery
    \/ DraftListenerStep
    \/ DraftListenerReject

(***************************************************************************)
(* useCourses (part_002, lines 550-725)                                    *)
(***************************************************************************)
\* currentUser.uid of the user the hook is mounted for
EnrollUid == "u2"

\* the calls of enrollCourse / unenrollCourse that may be in flight together
CallSlots == {1, 2}

\* a document that does not exist (snap.exists() is false); also null state
Absent == [exists |-> FALSE]
NothingSeen == [exists |-> FALSE, delivered |-> FALSE]
IdleCall == [pc |-> "idle"]
NoWrite == [who |-> "none"]
NoSnap == [outcome |-> "none"]

\* What new Date(v) makes of a stored date v (lines 620-622): the instant,
\* when the SDK hands the hook a number or an ISO string; an Invalid Date,
\* when it hands it a Timestamp object, as it does for a date that was
\* written as a Date object.  Every comparison with an Invalid Date is false.
InvalidDate == -1
DateReps == {"timestamp", "parsable"}
\* the Timestamp that the store makes of the Date object of instant d
TimestampBase == 100
NewDate(v) ==
    IF storedDates = "parsable" /\ v < TimestampBase THEN v ELSE InvalidDate

\* The courses collection as two handleAddCourse calls at tick 0 left it:
\* an active course of trainer u3 and a draft course of nobody.
EnrollCourses ==
    (1 :> CourseDoc([title |-> <<"T">>, instructorName |-> <<"U">>,
                     startDate |-> 1, endDate |-> 2], "u3", "active"))
    @@ (2 :> CourseDoc([title |-> <<"T">>, instructorName |-> <<"X">>,
                        startDate |-> 0, endDate |-> 2], "", "draft"))

InitEnroll(reps) ==
    /\ enrollDoc = Absent
    /\ storedDates \in reps
    /\ allCourses = NoRows
    /\ enrollments = Absent
    /\ enrolledCourseIds = <<>>
    /\ enrollSeen = NothingSeen
    /\ listenerRun = NoRun
    /\ lastSnap = NoSnap
    /\ calls = [k \in CallSlots |-> IdleCall]
    /\ lastWrite = NoWrite

\* what the hook's actions leave alone of the other screens
otherScreens == <<users, authEmail, pendingUsers, activityLogs, isSuperAdmin,
                  localUsers, addProc, courses, coursesCreated, sessionsStore,
                  cmSessions, cmUsersSeen, draftRun, lastRun, storedDates,
                  feedbackVars, sidebarVars, materialVars>>
\* ... and what all but the listener's actions leave alone besides
offListener == <<otherScreens, lastSnap>>

\* lines 596-600: snapshot.docs.map(doc => ({id: doc.id, ...doc.data()}))
CourseRows(coll) == [id \in DOMAIN coll |-> [id |-> id] @@ coll[id]]

\* the onSnapshot callback of the courses query, lines 591-604
CoursesSnapshot ==
    /\ allCourses # CourseRows(courses)
    /\ allCourses' = CourseRows(courses)
    /\ UNCHANGED <<offListener, opCount, lastOp, now, enrollDoc, enrollments,
                   enrolledCourseIds, enrollSeen, listenerRun, calls, lastWrite>>

Ids(cs) == [i \in 1..Len(cs) |-> cs[i].courseId]
IdSet(cs) == {cs[i].courseId : i \in 1..Len(cs)}
StoredCourses == IF enrollDoc.exists THEN enrollDoc.courses ELSE <<>>

(* ------------- the enrollment listener, lines 607-651 ------------- *)
\* lines 617-623: the date fields of an entry go through new Date(...)
ConvertDates(cs) ==
    [i \in 1..Len(cs) |->
       [cs[i] EXCEPT !.enrolledAt = NewDate(@), !.startDate = NewDate(@),
                     !.endDate = NewDate(@)]]

\* lines 626-634
AutoComplete(cs, clock) ==
    [i \in 1..Len(cs) |->
       IF cs[i].endDate # InvalidDate /\ cs[i].endDate < clock
          /\ cs[i].status = "active"
       THEN [cs[i] EXCEPT !.status = "completed"]
       ELSE cs[i]]

\* lines 640-641 and 643-644: the state the callback sets
SetEnrollmentState(userId, cs) ==
    /\ enrollments' = [exists |-> TRUE, userId |-> userId, courses |-> cs]
    /\ enrolledCourseIds' = Ids(cs)

\* the end of one run of the callback: the clock it read at line 626, the
\* array of the snapshot, the array in the local state and the array the
\* document holds when the callback is over
SnapEnded(outcome, clock, snapshot, local, stored) ==
    [outcome |-> outcome, clock |-> clock, snapshot |-> snapshot,
     local |-> local, stored |-> stored]

\* The listener is handed a snapshot of the document (at the mount, and
\* after every change); lines 613-636 and, when nothing needs an update,
\* 640-647.  Callbacks are taken one at a time.
EnrollmentSnapshot ==
    /\ listenerRun.pc = "idle"
    /\ enrollSeen # enrollDoc
    /\ enrollSeen' = enrollDoc
    /\ IF enrollDoc.exists
       THEN LET converted == ConvertDates(enrollDoc.courses)
                completed == AutoComplete(converted, now)
            IN IF completed # converted
               THEN /\ listenerRun' = [pc |-> "updateDoc",
                                       userId |-> enrollDoc.userId,
                                       courses |-> completed,
                                       read |-> enrollDoc.courses,
                                       clock |-> now]
                    /\ UNCHANGED <<enrollments, enrolledCourseIds, lastSnap>>
               ELSE /\ SetEnrollmentState(enrollDoc.userId, completed)
                    /\ lastSnap' = SnapEnded("set", now, enrollDoc.courses,
                                             completed, enrollDoc.courses)
                    /\ UNCHANGED listenerRun
       ELSE /\ enrollments' = Absent
            /\ enrolledCourseIds' = <<>>
            /\ lastSnap' = SnapEnded("absent", now, <<>>, <<>>, <<>>)
            /\ UNCHANGED listenerRun
    /\ UNCHANGED <<otherScreens, opCount, lastOp, now, enrollDoc, allCourses,
                   calls, lastWrite>>

\* the date field as the document keeps it, were a Date object stored as
\* the value the listener can parse again
StoredDate_Kept(d) == d

\* line 637: the array handed to updateDoc holds the Date objects of lines
\* 620-622, and the store keeps a Date object as a Timestamp (an Invalid
\* Date stays a value that no later new Date(...) parses)
StoredDate(d) == IF d = InvalidDate THEN InvalidDate ELSE d + TimestampBase

WrittenCourses(cs) ==
    [i \in 1..Len(cs) |->
       [cs[i] EXCEPT !.enrolledAt = StoredDate(@), !.startDate = StoredDate(@),
                     !.endDate = StoredDate(@)]]

\* how many writes the listener has made since another writer's last write
OwnWrites == IF lastWrite.who = "listener" THEN lastWrite.own ELSE 0

\* line 637: updateDoc(enrollmentRef, {courses}) is applied, and the
\* callback goes on to lines 640-641.
ListenerUpdateDoc ==
    /\ listenerRun.pc = "updateDoc"
    /\ enrollDoc.exists
    /\ enrollDoc' = [enrollDoc EXCEPT
                        !.courses = WrittenCourses(listenerRun.courses)]
    /\ lastWrite' = [who |-> "listener", arg |-> 0, read |-> listenerRun.read,
                     before |-> StoredCourses,
                     after |-> WrittenCourses(listenerRun.courses),
                     own |-> OwnWrites + 1]
    /\ SetEnrollmentState(listenerRun.userId, listenerRun.courses)
    /\ lastSnap' = SnapEnded("written", listenerRun.clock, listenerRun.read,
                             listenerRun.courses,
                             WrittenCourses(listenerRun.courses))
    /\ listenerRun' = NoRun
    /\ UNCHANGED <<otherScreens, opCount, lastOp, now, allCourses, enrollSeen,
                   calls>>

\* updateDoc is rejected: the callback has no catch and stops at line 637
ListenerReject ==
    /\ listenerRun.pc = "updateDoc"
    /\ listenerRun' = NoRun
    /\ lastSnap' = SnapEnded("rejected", listenerRun.clock, listenerRun.read,
                             IF enrollments.exists THEN enrollments.courses
                             ELSE <<>>, StoredCourses)
    /\ UNCHANGED <<otherScreens, opCount, lastOp, now, enrollDoc, allCourses,
                   enrollments, enrolledCourseIds, enrollSeen, calls, lastWrite>>

(* ------------- enrollCourse, lines 654-690 ------------- *)
\* newEnrollment with a fixed status in place of the course's
newEnrollment_StatusActive(courseId, course, clock) ==
    [courseId |-> courseId, enrolledAt |-> clock, title |-> course.title,
     instructorId |-> course.instructorId,
     instructorName |-> course.instructorName, hours |-> course.hours,
     level |-> course.level, category |-> course.category,
     startDate |-> course.startDate, endDate |-> course.endDate,
     materials |-> course.materials, status |-> "active"]

\* lines 664-677.  String(course.instructorId) of the string that
\* CourseManagement stores is that string; course.materials || [] of the
\* array it stores is that array.
newEnrollment(courseId, course, clock) ==
    [courseId |-> courseId, enrolledAt |-> clock, title |-> course.title,
     instructorId |-> course.instructorId,
     instructorName |-> course.instructorName, hours |-> course.hours,
     level |-> course.level, category |-> course.category,
     startDate |-> course.startDate, endDate |-> course.endDate,
     materials |-> course.materials, status |-> course.status]

\* the array the document holds when the write arrives, as a transaction
\* would read it
DataCourses_Stored(snap) == StoredCourses

\* data.courses of lines 682 and 700: the array of the snapshot the call read
DataCourses(snap) == snap.courses

\* a new call takes the first free slot
FreeSlot(k) == calls[k].pc = "idle" /\ \A j \in CallSlots : j < k => calls[j].pc # "idle"

\* the end of an enrollCourse or unenrollCourse call; of a successful
\* enrollCourse the history keeps what it read, built and left behind
CallEnded(k, p, outcome) ==
    /\ calls' = [calls EXCEPT ![k] = IdleCall]
    /\ lastOp' = IF outcome = "enrolled"
                 THEN [op |-> p.op, courseId |-> p.courseId, outcome |-> outcome,
                       storedHad |-> p.storedHad, listStale |-> p.listStale,
                       course |-> p.course, entry |-> p.entry,
                       read |-> p.read, after |-> enrollDoc']
                 ELSE [op |-> p.op, courseId |-> p.courseId, outcome |-> outcome,
                       storedHad |-> p.storedHad]

\* enrollCourse(courseId) is called: lines 656-677, up to the await of getDoc
EnrollCourse(k, courseId) ==
    /\ FreeSlot(k)
    /\ UNCHANGED <<offListener, now, enrollDoc, allCourses, enrollments,
                   enrolledCourseIds, enrollSeen, listenerRun, lastWrite>>
    /\ opCount < MaxOps
    /\ opCount' = opCount + 1
    /\ LET p == [pc |-> "getDoc", op |-> "enroll", courseId |-> courseId,
                 storedHad |-> courseId \in IdSet(StoredCourses),
                 listStale |-> allCourses # CourseRows(courses),
                 course |-> Absent, entry |-> Absent, read |-> Absent]
       IN IF courseId \in IdSet([i \in 1..Len(enrolledCourseIds) |->
                                   [courseId |-> enrolledCourseIds[i]]])
          THEN CallEnded(k, p, "Already enrolled!")
          ELSE IF courseId \notin DOMAIN allCourses
          THEN CallEnded(k, p, "Course not found")
          ELSE /\ calls' = [calls EXCEPT ![k] =
                              [p EXCEPT !.course = allCourses[courseId],
                                        !.entry = newEnrollment(courseId,
                                                     allCourses[courseId], now)]]
               /\ UNCHANGED lastOp

\* getDoc answers (lines 679 and 697); unenrollCourse returns when there is
\* no document (line 698)
CallGetDoc(k) ==
    /\ calls[k].pc = "getDoc"
    /\ UNCHANGED <<offListener, opCount, now, enrollDoc, allCourses,
                   enrollments, enrolledCourseIds, enrollSeen, listenerRun,
                   lastWrite>>
    /\ LET p == [calls[k] EXCEPT !.read = enrollDoc] IN
       IF p.op = "unenroll" /\ ~enrollDoc.exists
       THEN CallEnded(k, p, "no document")
       ELSE calls' = [calls EXCEPT ![k] = [p EXCEPT !.pc = "write"]]
            /\ UNCHANGED lastOp

\* lines 681-687: updateDoc with the array read plus the new entry, or
\* setDoc of a new document when the read found none
EnrollWrite(k) ==
    LET p == calls[k]
        written == IF p.read.exists THEN Append(DataCourses(p.read), p.entry)
                   ELSE <<p.entry>>
    IN /\ p.pc = "write"
       /\ p.op = "enroll"
       /\ p.read.exists => enrollDoc.exists
       /\ enrollDoc' = IF p.read.exists
                       THEN [enrollDoc EXCEPT !.courses = written]
                       ELSE [exists |-> TRUE, userId |-> EnrollUid,
                             courses |-> written]
       /\ lastWrite' = [who |-> "enroll", arg |-> p.courseId,
                        read |-> IF p.read.exists THEN p.read.courses ELSE <<>>,
                        before |-> StoredCourses, after |-> written]
       /\ CallEnded(k, p, "enrolled")
       /\ UNCHANGED <<offListener, opCount, now, allCourses, enrollments,
                      enrolledCourseIds, enrollSeen, listenerRun>>

\* unenrollCourse(courseId) is called: lines 695-697
UnenrollCourse(k, courseId) ==
    /\ FreeSlot(k)
    /\ opCount < MaxOps
    /\ opCount' = opCount + 1
    /\ calls' = [calls EXCEPT ![k] =
                   [pc |-> "getDoc", op |-> "unenroll", courseId |-> courseId,
                    storedHad |-> courseId \in IdSet(StoredCourses),
                    listStale |-> allCourses # CourseRows(courses),
                    course |-> Absent, entry |-> Absent, read |-> Absent]]
    /\ UNCHANGED <<offListener, lastOp, now, enrollDoc, allCourses, enrollments,
                   enrolledCourseIds, enrollSeen, listenerRun, lastWrite>>

\* lines 700-702: updateDoc with the array read less the course
UnenrollWrite(k) ==
    LET p == calls[k]
        Keeps(c) == c.courseId # p.courseId
        updatedCourses == SelectSeq(DataCourses(p.read), Keeps)
    IN /\ p.pc = "write"
       /\ p.op = "unenroll"
       /\ enrollDoc.exists
       /\ enrollDoc' = [enrollDoc EXCEPT !.courses = updatedCourses]
       /\ lastWrite' = [who |-> "unenroll", arg |-> p.courseId,
                        read |-> p.read.courses,
                        before |-> StoredCourses, after |-> updatedCourses]
       /\ CallEnded(k, p, "unenrolled")
       /\ UNCHANGED <<offListener, opCount, now, allCourses, enrollments,
                      enrolledCourseIds, enrollSeen, listenerRun>>

\* getDoc, updateDoc or setDoc is rejected: the call rejects to its caller
CallReject(k) ==
    /\ calls[k].pc \in {"getDoc", "write"}
    /\ UNCHANGED <<offListener, opCount, now, enrollDoc, allCourses,
                   enrollments, enrolledCourseIds, enrollSeen, listenerRun,
                   lastWrite>>
    /\ CallEnded(k, calls[k], "rejected")

\* The hook, with the CourseManagement screen of an admin beside it, who
\* gives the draft course to trainer u3.
CourseEdits ==
    {[title |-> <<"T">>, instructorName |-> <<"U">>, startDate |-> 1, endDate |-> 3]}
EditedCourses == {2}

NextEnroll ==
    \/ Tick
    \/ \E id \in DOMAIN courses \cap EditedCourses, f \in CourseEdits :
          HandleSaveEditCourse(id, f)
    \/ CoursesSnapshot
    \/ EnrollmentSnapshot
    \/ ListenerUpdateDoc
    \/ ListenerReject
    \/ \E k \in CallSlots :
          \/ \E courseId \in DOMAIN EnrollCourses : EnrollCourse(k, courseId)
          \/ \E courseId \in DOMAIN EnrollCourses : UnenrollCourse(k, courseId)
          \/ CallGetDoc(k)
          \/ EnrollWrite(k)
          \/ UnenrollWrite(k)
          \/ CallReject(k)

(***************************************************************************)
(* The feedbacks and hiddenMessages collections                            *)
(***************************************************************************)
\* null and undefined of a JavaScript value
Null == "<null>"
Undefined == "<undefined>"

\* the id of no message: null of editingMessageId, undefined of a messageId
NoMessage == 0

\* !v of an id
Falsy(v) == v \in {Null, Undefined, ""}

\* currentUser.uid of the trainee (FeedbackForm.tsx line 31)
traineeId == EnrollUid

\* a feedbacks document; sender is "none" where the field is absent (the
\* versions of part_001 store status: "sent" in its place)
FeedbackDoc(trainer, trainee, msg, sender, ts) ==
    [trainerId |-> trainer, traineeId |-> trainee, message |-> msg,
     sender |-> sender, timestamp |-> ts]

\* The feedbacks collection at the start: a message of trainee u2 to trainer
\* u3, the trainer's reply, and a message of another trainee to the trainer.
InitFeedbackDocs ==
    (1 :> FeedbackDoc("u3", "u2", <<"a">>, "trainee", 1))
    @@ (2 :> FeedbackDoc("u3", "u2", <<"b">>, "trainer", 2))
    @@ (3 :> FeedbackDoc("u3", "u5", <<"a">>, "trainee", 3))

\* the enrollment document of the trainee: one active course of trainer u3
FeedbackEnrollment ==
    [exists |-> TRUE, userId |-> EnrollUid,
     courses |-> <<newEnrollment(1, CourseRows(EnrollCourses)[1], 0)>>]

\* {id: doc.id, ...doc.data()} of a feedbacks document
FeedbackRow(id) == [id |-> id] @@ feedbackDocs[id]

\* orderBy("timestamp", "asc") over the documents with the ids in S
RECURSIVE OrderByTimestamp(_)
OrderByTimestamp(S) ==
    IF S = {} THEN <<>>
    ELSE LET first == CHOOSE id \in S :
                        \A o \in S : \/ feedbackDocs[id].timestamp < feedbackDocs[o].timestamp
                                     \/ /\ feedbackDocs[id].timestamp = feedbackDocs[o].timestamp
                                        /\ id <= o
         IN <<FeedbackRow(first)>> \o OrderByTimestamp(S \ {first})

\* what the text box of a form can hold
MessageInputs == {<<>>, <<" ">>, <<"a">>, <<"b">>}

\* !message.trim()
Blank(msg) == trim(msg) = <<>>

NoSub == [trainerId |-> Null, delivered |-> FALSE, seen |-> <<>>]
FetchDone == [pc |-> "done"]

(***************************************************************************)
(* FeedbackForm: the trainer-search version (FeedbackForm.tsx), the        *)
(* single-instructor version (part_001, lines 1-210) and the props version *)
(* (part_001, lines 212-259) that TraineeDashboard mounts (Resources.tsx,  *)
(* lines 260-303).  One of them is mounted; the variable form says which.  *)
(***************************************************************************)
Forms == {"search", "single", "props"}

\* what the trainer name box can hold: nothing, a blank, the name of the
\* assigned trainer in two spellings, the name of a user who is not assigned
NameInputs == {<<>>, <<" ">>, <<"u">>, <<"U">>, <<"S">>}

InitTrainee(forms) ==
    /\ form \in forms
    /\ trainerName = <<>>
    /\ trainerId = IF form = "props" THEN "" ELSE Null
    /\ availableTrainers = <<>>
    /\ suggestions = <<>>
    /\ message = <<>>
    /\ feedbacks = <<>>
    /\ fbSub = NoSub
    /\ fbFetch = [pc |-> "getEnrollment"]
    /\ fbCall = IdleCall
    /\ fbEdited = NoMessage
    /\ hideRemoved = {}
    /\ lastFb = NoOp

\* String.prototype.includes
Includes(s, sub) ==
    \E i \in 0..(Len(s) - Len(sub)) : SubSeq(s, i + 1, i + Len(sub)) = sub

\* Array.prototype.slice(0, 5)
Slice5(s) == IF Len(s) <= 5 THEN s ELSE SubSeq(s, 1, 5)

\* FeedbackForm.tsx lines 96-112: the effect on [trainerName, availableTrainers]
SearchTrainers(name, trainers) ==
    LET Matches(t) == Includes(toLowerCase(t.displayName), toLowerCase(name))
        filtered == SelectSeq(trainers, Matches)
        Exact(t) == toLowerCase(t.displayName) = toLowerCase(name)
        exact == SelectSeq(filtered, Exact)
    IN IF Blank(name) THEN [suggestions |-> <<>>, trainerId |-> Null]
       ELSE [suggestions |-> Slice5(filtered),
             trainerId |-> IF exact # <<>> THEN exact[1].id ELSE Null]

\* FeedbackForm.tsx lines 126-145 and part_001 lines 59-78: the effect on
\* [traineeId, trainerId] drops its subscription when trainerId changes and
\* subscribes again unless the new trainerId is empty; the list stays.
ListenerEffect(newId) ==
    fbSub' = IF form = "props" \/ newId = trainerId THEN fbSub
             ELSE IF Falsy(newId) THEN NoSub
             ELSE [trainerId |-> newId, delivered |-> FALSE, seen |-> <<>>]

\* the documents of the query of lines 129-134
FeedbackQuery(trainer) ==
    OrderByTimestamp({id \in DOMAIN feedbackDocs :
                        /\ feedbackDocs[id].traineeId = traineeId
                        /\ feedbackDocs[id].trainerId = trainer})

\* what the form's actions leave alone of the other screens
offTrainee == <<users, authEmail, pendingUsers, activityLogs, isSuperAdmin,
               localUsers, addProc, lastOp, courseVars, enrollVars,
               sidebarVars, materialVars, trainerVars>>
fbStore == <<feedbackDocs, fbWrites, hiddenDocs>>

\* the onSnapshot callback of the feedback query (lines 136-142): at the
\* subscription and after every change of the query's result
FeedbackSnapshot ==
    /\ fbSub.trainerId # Null
    /\ ~fbSub.delivered \/ fbSub.seen # FeedbackQuery(fbSub.trainerId)
    /\ feedbacks' = FeedbackQuery(fbSub.trainerId)
    /\ fbSub' = [fbSub EXCEPT !.delivered = TRUE,
                              !.seen = FeedbackQuery(fbSub.trainerId)]
    /\ UNCHANGED <<offTrainee, opCount, fbStore, form, trainerName, trainerId,
                   availableTrainers, suggestions, message, fbFetch, fbCall,
                   fbEdited, hideRemoved, lastFb>>

\* the instructor ids of the enrollment documents of the trainee (lines
\* 63-77): map(course => course.courses).flat().map(c => c.instructorId)
TrainerIds(doc) ==
    IF doc.exists /\ doc.userId = traineeId
    THEN {doc.courses[i].instructorId : i \in 1..Len(doc.courses)}
    ELSE {}

\* every user, whether assigned or not
AssignedTrainers_AllUsers(trainerIds) ==
    LET Assigned(uid) == uid \in DOMAIN users
    IN [i \in 1..Len(SelectSeq(UidOrder, Assigned)) |->
          RowsOf(users)[SelectSeq(UidOrder, Assigned)[i]]]

\* lines 81-84: the users whose id is one of the instructor ids
AssignedTrainers(trainerIds) ==
    LET Assigned(uid) == uid \in DOMAIN users /\ uid \in trainerIds
    IN [i \in 1..Len(SelectSeq(UidOrder, Assigned)) |->
          RowsOf(users)[SelectSeq(UidOrder, Assigned)[i]]]

\* c.status.toLowerCase() of part_001 line 44
LowerStatus(s) ==
    CASE s = "Active" -> "active" [] s = "ACTIVE" -> "active" [] OTHER -> s

\* The first getDoc / getDocs of the mount effect answers.
\*   search: lines 63-79, the enrollments of the trainee;
\*   single: part_001 lines 40-50, the first active course's instructor;
\*   props:  Resources.tsx lines 276-280, enrolmentData.instructorId, a
\*           field the enrollment document does not have.
FetchEnrollment ==
    /\ fbFetch.pc = "getEnrollment"
    /\ UNCHANGED <<offTrainee, opCount, fbStore, form, trainerName, availableTrainers,
                   suggestions, message, feedbacks, fbCall, fbEdited,
                   hideRemoved, lastFb>>
    /\ CASE form = "search" ->
              /\ fbFetch' = IF TrainerIds(enrollDoc) = {} THEN FetchDone
                            ELSE [pc |-> "getUsers",
                                  trainerIds |-> TrainerIds(enrollDoc)]
              /\ UNCHANGED <<trainerId, fbSub>>
         [] form = "single" ->
              LET Active(c) == LowerStatus(c.status) = "active"
                  active == IF enrollDoc.exists
                            THEN SelectSeq(enrollDoc.courses, Active) ELSE <<>>
              IN /\ fbFetch' = FetchDone
                 /\ IF active # <<>>
                    THEN /\ trainerId' = active[1].instructorId
                         /\ ListenerEffect(active[1].instructorId)
                    ELSE UNCHANGED <<trainerId, fbSub>>
         [] form = "props" ->
              /\ fbFetch' = FetchDone
              /\ trainerId' = IF enrollDoc.exists THEN Undefined ELSE trainerId
              /\ UNCHANGED fbSub

\* lines 81-86: getDocs(users) answers; setAvailableTrainers, and the search
\* effect runs again on the new list
FetchUsers ==
    /\ fbFetch.pc = "getUsers"
    /\ fbFetch' = FetchDone
    /\ availableTrainers' = AssignedTrainers(fbFetch.trainerIds)
    /\ LET found == SearchTrainers(trainerName, availableTrainers')
       IN /\ suggestions' = found.suggestions
          /\ trainerId' = found.trainerId
          /\ ListenerEffect(found.trainerId)
    /\ UNCHANGED <<offTrainee, opCount, fbStore, form, trainerName, message, feedbacks,
                   fbCall, fbEdited, hideRemoved, lastFb>>

\* a getDoc / getDocs of the mount effect is rejected: caught and logged
\* (lines 87-89, part_001 lines 51-53, Resources.tsx lines 281-283)
FetchReject ==
    /\ fbFetch.pc \in {"getEnrollment", "getUsers"}
    /\ fbFetch' = [pc |-> "failed"]
    /\ UNCHANGED <<offTrainee, opCount, fbStore, form, trainerName, trainerId,
                   availableTrainers, suggestions, message, feedbacks, fbSub,
                   fbCall, fbEdited, hideRemoved, lastFb>>

\* onChange of the trainer name box (line 207) and the search effect
SetTrainerName(name) ==
    /\ form = "search"
    /\ name # trainerName
    /\ trainerName' = name
    /\ LET found == SearchTrainers(name, availableTrainers)
       IN /\ suggestions' = found.suggestions
          /\ trainerId' = found.trainerId
          /\ ListenerEffect(found.trainerId)
    /\ lastFb' = [op |-> "setTrainerName", name |-> name]
    /\ UNCHANGED <<offTrainee, opCount, fbStore, form, availableTrainers, message,
                   feedbacks, fbFetch, fbCall, fbEdited, hideRemoved>>

\* onChange of the message box
SetMessage(msg) ==
    /\ msg # message
    /\ message' = msg
    /\ UNCHANGED <<offTrainee, opCount, fbStore, form, trainerName, trainerId,
                   availableTrainers, suggestions, feedbacks, fbSub, fbFetch,
                   fbCall, fbEdited, hideRemoved, lastFb>>

\* lines 190-194, a click on a suggestion; when the name in the box changes
\* with it the search effect runs after the handler
HandleSelectTrainer(i) ==
    /\ form = "search"
    /\ i \in 1..Len(suggestions)
    /\ LET trainer == suggestions[i]
           found == SearchTrainers(trainer.displayName, availableTrainers)
           ran == trainer.displayName # trainerName
           newId == IF ran THEN found.trainerId ELSE trainer.id
       IN /\ trainerName' = trainer.displayName
          /\ suggestions' = IF ran THEN found.suggestions ELSE <<>>
          /\ trainerId' = newId
          /\ ListenerEffect(newId)
          /\ lastFb' = [op |-> "selectTrainer", name |-> trainer.displayName]
    /\ UNCHANGED <<offTrainee, opCount, fbStore, form, availableTrainers, message,
                   feedbacks, fbFetch, fbCall, fbEdited, hideRemoved>>

\* lines 185-188, a click on the edit button of a message of the trainee
HandleEditTrainee(i) ==
    /\ form = "search"
    /\ i \in 1..Len(feedbacks)
    /\ feedbacks[i].sender = "trainee"
    /\ message' = feedbacks[i].message
    /\ trainerId' = feedbacks[i].trainerId
    /\ ListenerEffect(feedbacks[i].trainerId)
    /\ fbEdited' = feedbacks[i].id
    /\ lastFb' = [op |-> "edit", id |-> feedbacks[i].id]
    /\ opCount < MaxOps
    /\ opCount' = opCount + 1
    /\ UNCHANGED <<offTrainee, fbStore, form, trainerName, availableTrainers,
                   suggestions, feedbacks, fbFetch, fbCall, hideRemoved>>

\* the guard at the head of handleSend
\*   search: line 149; single: part_001 line 90; props: part_001 line 225
SendRefused ==
    IF form = "props" THEN Blank(message)
    ELSE Blank(message) \/ Falsy(trainerId) \/ Falsy(traineeId)

\* the end of a handler call of the form
FormCallEnded(op, outcome, doc, edited) ==
    lastFb' = [op |-> op, outcome |-> outcome, form |-> form, doc |-> doc,
               edited |-> edited, before |-> feedbackDocs,
               after |-> feedbackDocs']

\* handleSend up to the await of addDoc (lines 148-157, part_001 lines
\* 89-99 and 224-232)
HandleSend ==
    /\ fbCall.pc = "idle"
    /\ opCount < MaxOps
    /\ opCount' = opCount + 1
    /\ UNCHANGED <<offTrainee, fbStore, form, trainerName, trainerId,
                   availableTrainers, suggestions, message, feedbacks, fbSub,
                   fbFetch, fbEdited, hideRemoved>>
    /\ IF SendRefused
       THEN /\ FormCallEnded("send", "returned", Absent, fbEdited)
            /\ UNCHANGED fbCall
       ELSE /\ fbCall' = [pc |-> "addDoc", op |-> "send", edited |-> fbEdited,
                          doc |-> FeedbackDoc(trainerId, traineeId, message,
                                     IF form = "search" THEN "trainee"
                                     ELSE "none", 0)]
            /\ UNCHANGED lastFb

\* addDoc is applied; the handler clears the box (lines 158-159, part_001
\* lines 101-114 with the local copy of the new message, and line 234).
\* addDoc does not take a document with an undefined field.
SendApply ==
    /\ fbCall.pc = "addDoc"
    /\ fbCall.doc.trainerId # Undefined
    /\ fbWrites' = fbWrites + 1
    /\ feedbackDocs' = feedbackDocs @@
          (fbWrites' :> [fbCall.doc EXCEPT !.timestamp = fbWrites'])
    /\ message' = <<>>
    /\ feedbacks' = IF form = "single"
                    THEN Append(feedbacks,
                           [id |-> fbWrites'] @@ [fbCall.doc EXCEPT !.timestamp = now])
                    ELSE feedbacks
    /\ fbCall' = IdleCall
    /\ fbEdited' = NoMessage
    /\ UNCHANGED <<offTrainee, opCount, hiddenDocs, form, trainerName, trainerId,
                   availableTrainers, suggestions, fbSub, fbFetch, hideRemoved>>
    /\ FormCallEnded("send", "sent", [id |-> fbWrites'] @@ fbCall.doc,
                     fbCall.edited)

\* a click on the delete button of a message: lines 271-286 offer it where
\* fb.sender === "trainee", part_001 lines 160 and 190-198 where
\* fb.traineeId === traineeId
isTrainee(fb) ==
    IF form = "search" THEN fb.sender = "trainee" ELSE fb.traineeId = traineeId

\* handleDeleteTrainee (lines 166-168) and handleDelete (part_001 121-123)
HandleDeleteTrainee(i) ==
    /\ form \in {"search", "single"}
    /\ fbCall.pc = "idle"
    /\ i \in 1..Len(feedbacks)
    /\ isTrainee(feedbacks[i])
    /\ fbCall' = [pc |-> "deleteDoc", op |-> "delete", edited |-> fbEdited,
                  doc |-> feedbacks[i]]
    /\ opCount < MaxOps
    /\ opCount' = opCount + 1
    /\ UNCHANGED <<offTrainee, fbStore, form, trainerName, trainerId,
                   availableTrainers, suggestions, message, feedbacks, fbSub,
                   fbFetch, fbEdited, hideRemoved, lastFb>>

\* where the try block of handleHideTrainer goes on to without regard to
\* the outcome of setDoc
hideTrainerNext_Regardless(pc, ok) ==
    CASE pc = "setDoc" -> "deleteDoc"
      [] pc = "deleteDoc" /\ ok -> "done"
      [] OTHER -> "catch"

\* lines 176-181: setDoc, then deleteDoc, and the catch for either
hideTrainerNext(pc, ok) ==
    CASE pc = "setDoc" /\ ok -> "deleteDoc"
      [] pc = "deleteDoc" /\ ok -> "done"
      [] OTHER -> "catch"

\* a click on the hide button of a message that is not the trainee's
\* (lines 289-296), up to the await of setDoc
HandleHideTrainer(i) ==
    /\ form = "search"
    /\ fbCall.pc = "idle"
    /\ i \in 1..Len(feedbacks)
    /\ ~isTrainee(feedbacks[i])
    /\ fbCall' = [pc |-> "setDoc", op |-> "hide", edited |-> fbEdited,
                  doc |-> feedbacks[i]]
    /\ opCount < MaxOps
    /\ opCount' = opCount + 1
    /\ UNCHANGED <<offTrainee, fbStore, form, trainerName, trainerId,
                   availableTrainers, suggestions, message, feedbacks, fbSub,
                   fbFetch, fbEdited, hideRemoved, lastFb>>

\* one awaited operation of handleDeleteTrainee / handleDelete /
\* handleHideTrainer answers: applied (ok) or rejected
FormCallStep(ok) ==
    /\ fbCall.pc \in {"setDoc", "deleteDoc"}
    /\ LET fb == fbCall.doc
           next == IF fbCall.op = "hide" THEN hideTrainerNext(fbCall.pc, ok)
                   ELSE IF ok THEN "done" ELSE "catch"
       IN /\ hiddenDocs' = IF ok /\ fbCall.pc = "setDoc"
                           THEN [k \in DOMAIN hiddenDocs \cup {<<"copy", fb.id>>} |->
                                   IF k = <<"copy", fb.id>> THEN fb
                                   ELSE hiddenDocs[k]]
                           ELSE hiddenDocs
          /\ feedbackDocs' = IF ok /\ fbCall.pc = "deleteDoc"
                             THEN Remove(feedbackDocs, fb.id) ELSE feedbackDocs
          /\ hideRemoved' = IF ok /\ fbCall.pc = "deleteDoc" /\ fbCall.op = "hide"
                               /\ fb.id \in DOMAIN feedbackDocs
                            THEN hideRemoved \cup {fb.id} ELSE hideRemoved
          /\ feedbacks' = IF ok /\ fbCall.pc = "deleteDoc" /\ form = "single"
                          THEN LET Others(m) == m.id # fb.id
                               IN SelectSeq(feedbacks, Others)
                          ELSE feedbacks
          /\ IF next \in {"done", "catch"}
             THEN /\ fbCall' = IdleCall
                  /\ FormCallEnded(fbCall.op,
                        IF next = "done" THEN "done" ELSE "logged", fb,
                        fbCall.edited)
             ELSE /\ fbCall' = [fbCall EXCEPT !.pc = next]
                  /\ UNCHANGED lastFb
    /\ UNCHANGED <<offTrainee, opCount, fbWrites, form, trainerName, trainerId,
                   availableTrainers, suggestions, message, fbSub, fbFetch,
                   fbEdited>>

\* addDoc is rejected: caught and logged (lines 160-162, part_001 lines
\* 115-117); the props version has no try around it and the rejection
\* leaves handleSend unhandled
SendReject ==
    /\ fbCall.pc = "addDoc"
    /\ fbCall' = IdleCall
    /\ UNCHANGED <<offTrainee, opCount, fbStore, form, trainerName, trainerId,
                   availableTrainers, suggestions, message, feedbacks, fbSub,
                   fbFetch, fbEdited, hideRemoved>>
    /\ FormCallEnded("send", IF form = "props" THEN "unhandled" ELSE "logged",
                     fbCall.doc, fbCall.edited)

NextTrainee ==
    \/ FetchEnrollment
    \/ FetchUsers
    \/ FetchReject
    \/ FeedbackSnapshot
    \/ \E name \in NameInputs : SetTrainerName(name)
    \/ \E msg \in MessageInputs : SetMessage(msg)
    \/ \E i \in 1..Len(suggestions) : HandleSelectTrainer(i)
    \/ \E i \in 1..Len(feedbacks) : HandleEditTrainee(i)
    \/ HandleSend
    \/ SendApply
    \/ SendReject
    \/ \E i \in 1..Len(feedbacks) : HandleDeleteTrainee(i)
    \/ \E i \in 1..Len(feedbacks) : HandleHideTrainer(i)
    \/ \E ok \in BOOLEAN : FormCallStep(ok)

(***************************************************************************)
(* TrainerFeedback: the basic version (TrainerFeedback.tsx, lines 1-155),  *)
(* the version with trainee names (lines 157-336) and the version with     *)
(* edit and hide (part_000, lines 1-240).  One of them is mounted by       *)
(* TrainerDashboard (part_000, lines 255-284); the variable version says   *)
(* which.                                                                  *)
(***************************************************************************)
Versions == {"basic", "names", "edit"}

\* the trainerId prop: currentUser.uid of the trainer (part_000 line 268)
TrainerUid == "u3"

NoFetch == [issued |-> FALSE, answers |-> {}]

InitTrainer(versions) ==
    /\ version \in versions
    /\ messages = <<>>
    /\ reply = <<>>
    /\ selectedTrainee = Null
    /\ editingMessageId = NoMessage
    /\ hiddenMessageIds = {}
    /\ trSub = [hidden |-> {}, delivered |-> FALSE, seen |-> <<>>]
    /\ hiddenFetch = [issued |-> (version = "edit"), answers |-> {}]
    /\ trCall = IdleCall
    /\ trainerHid = {}
    /\ lastTr = NoOp

InitStore ==
    /\ feedbackDocs = InitFeedbackDocs
    /\ fbWrites = Cardinality(DOMAIN InitFeedbackDocs)
    /\ hiddenDocs = NoRows

\* what the screen's actions leave alone of the other screens
offTrainer == <<users, authEmail, pendingUsers, activityLogs, isSuperAdmin,
               localUsers, addProc, lastOp, courseVars, enrollVars,
               sidebarVars, materialVars, traineeVars>>

\* the ids in S in ascending order
RECURSIVE Ascending(_)
Ascending(S) ==
    IF S = {} THEN <<>>
    ELSE LET least == CHOOSE id \in S : \A o \in S : id <= o
         IN <<least>> \o Ascending(S \ {least})

\* lines 64-70 of part_000 (42-48 and 201-207 of TrainerFeedback.tsx): the
\* rows of the documents with this trainerId; sender defaults to "trainee"
TrainerRows ==
    LET ids == Ascending({id \in DOMAIN feedbackDocs :
                             feedbackDocs[id].trainerId = TrainerUid})
    IN [i \in 1..Len(ids) |->
          [id |-> ids[i], traineeId |-> feedbackDocs[ids[i]].traineeId,
           message |-> feedbackDocs[ids[i]].message,
           timestamp |-> feedbackDocs[ids[i]].timestamp,
           sender |-> IF feedbackDocs[ids[i]].sender = "none" THEN "trainee"
                      ELSE feedbackDocs[ids[i]].sender]]

\* part_000 line 71: feedbacks.filter(m => !hiddenMessageIds.includes(m.id))
Shown(rows, hidden) ==
    LET NotHidden(m) == m.id \notin hidden
    IN SelectSeq(rows, NotHidden)

\* The onSnapshot callback of the feedback listener, with the
\* hiddenMessageIds of the render that subscribed it (part_000 lines 61-73;
\* lines 41-50 and 200-209 of TrainerFeedback.tsx set every row).
TrainerSnapshot ==
    /\ ~trSub.delivered \/ trSub.seen # TrainerRows
    /\ messages' = IF version = "edit" THEN Shown(TrainerRows, trSub.hidden)
                   ELSE TrainerRows
    /\ trSub' = [trSub EXCEPT !.delivered = TRUE, !.seen = TrainerRows]
    /\ UNCHANGED <<offTrainer, opCount, fbStore, version, reply, selectedTrainee,
                   editingMessageId, hiddenMessageIds, hiddenFetch, trCall,
                   trainerHid, lastTr>>

\* The effect on [trainerId, hiddenMessageIds] of part_000 lines 60-77 runs
\* whenever setHiddenMessageIds is given a new array: it subscribes the
\* listener again and calls fetchHiddenMessages.
HiddenEffect(hidden, answers) ==
    /\ trSub' = [hidden |-> hidden, delivered |-> FALSE, seen |-> <<>>]
    /\ hiddenFetch' = [issued |-> TRUE, answers |-> answers]

\* part_000 lines 53-55: the query of fetchHiddenMessages is answered;
\* messageId of a document without the field is undefined
HiddenQuery ==
    {IF "messageId" \in DOMAIN hiddenDocs[k] THEN hiddenDocs[k].messageId
     ELSE NoMessage : k \in {h \in DOMAIN hiddenDocs : hiddenDocs[h].trainerId = TrainerUid}}

FetchHiddenAnswer ==
    /\ hiddenFetch.issued
    /\ hiddenFetch' = [issued |-> FALSE,
                       answers |-> hiddenFetch.answers \cup {HiddenQuery}]
    /\ UNCHANGED <<offTrainer, opCount, fbStore, version, messages, reply,
                   selectedTrainee, editingMessageId, hiddenMessageIds, trSub,
                   trCall, trainerHid, lastTr>>

\* part_000 line 56: an answer arrives and setHiddenMessageIds is called
FetchHiddenDeliver ==
    /\ \E answer \in hiddenFetch.answers :
          /\ hiddenMessageIds' = answer
          /\ HiddenEffect(answer, hiddenFetch.answers \ {answer})
    /\ UNCHANGED <<offTrainer, opCount, fbStore, version, messages, reply,
                   selectedTrainee, editingMessageId, trCall, trainerHid, lastTr>>

\* getDocs of fetchHiddenMessages is rejected: nothing catches it
FetchHiddenReject ==
    /\ hiddenFetch.issued
    /\ hiddenFetch' = [hiddenFetch EXCEPT !.issued = FALSE]
    /\ lastTr' = [op |-> "fetchHiddenMessages", outcome |-> "unhandled"]
    /\ UNCHANGED <<offTrainer, opCount, fbStore, version, messages, reply,
                   selectedTrainee, editingMessageId, hiddenMessageIds, trSub,
                   trCall, trainerHid>>

\* line 142 of part_000: the trainees of the list
Trainees == {messages[i].traineeId : i \in 1..Len(messages)}

\* a click on a trainee of the list (part_000 line 160)
SelectTrainee(id) ==
    /\ id \in Trainees
    /\ id # selectedTrainee
    /\ selectedTrainee' = id
    /\ UNCHANGED <<offTrainer, opCount, fbStore, version, messages, reply,
                   editingMessageId, hiddenMessageIds, trSub, hiddenFetch,
                   trCall, trainerHid, lastTr>>

\* onChange of the reply box, shown when a trainee is selected
SetReply(text) ==
    /\ ~Falsy(selectedTrainee)
    /\ text # reply
    /\ reply' = text
    /\ UNCHANGED <<offTrainer, opCount, fbStore, version, messages, selectedTrainee,
                   editingMessageId, hiddenMessageIds, trSub, hiddenFetch,
                   trCall, trainerHid, lastTr>>

\* the messages of the chat area (part_000 lines 178-179)
Conversation(trainee) ==
    LET Theirs(m) == m.traineeId = trainee
    IN SelectSeq(messages, Theirs)

\* part_000 lines 120-124, offered on the trainer's messages (lines 193-197)
HandleEdit(i) ==
    /\ version = "edit"
    /\ ~Falsy(selectedTrainee)
    /\ i \in 1..Len(Conversation(selectedTrainee))
    /\ Conversation(selectedTrainee)[i].sender = "trainer"
    /\ editingMessageId' = Conversation(selectedTrainee)[i].id
    /\ reply' = Conversation(selectedTrainee)[i].message
    /\ opCount < MaxOps
    /\ opCount' = opCount + 1
    /\ UNCHANGED <<offTrainer, fbStore, version, messages, selectedTrainee,
                   hiddenMessageIds, trSub, hiddenFetch, trCall, trainerHid,
                   lastTr>>

\* the end of a handler call of the screen
TrainerCallEnded(p, outcome) ==
    /\ trCall' = IdleCall
    /\ lastTr' = [op |-> p.op, outcome |-> outcome, call |-> p,
                  before |-> feedbackDocs, after |-> feedbackDocs',
                  hiddenAfter |-> hiddenDocs',
                  editingAfter |-> editingMessageId']

\* handleReply up to its await (part_000 lines 98-114; lines 55-64 and
\* 234-243 of TrainerFeedback.tsx, which only add)
HandleReply ==
    /\ trCall.pc = "idle"
    /\ opCount < MaxOps
    /\ opCount' = opCount + 1
    /\ UNCHANGED <<offTrainer, fbStore, version, messages, reply,
                   selectedTrainee, editingMessageId, hiddenMessageIds, trSub,
                   hiddenFetch, trainerHid>>
    /\ LET p == [pc |-> IF version = "edit" /\ editingMessageId # NoMessage
                        THEN "updateDoc" ELSE "addDoc",
                 op |-> "reply", reply |-> reply,
                 selectedTrainee |-> selectedTrainee,
                 editingMessageId |-> editingMessageId, msg |-> Absent]
       IN IF Blank(reply) \/ Falsy(selectedTrainee)
          THEN TrainerCallEnded(p, "returned")
          ELSE /\ trCall' = p
               /\ UNCHANGED lastTr

\* updateDoc or addDoc of handleReply is applied (updateDoc needs the
\* document to exist), and lines 106 and 116 follow
ReplyApply ==
    /\ trCall.pc \in {"updateDoc", "addDoc"}
    /\ trCall.pc = "updateDoc" => trCall.editingMessageId \in DOMAIN feedbackDocs
    /\ fbWrites' = fbWrites + 1
    /\ feedbackDocs' =
          IF trCall.pc = "updateDoc"
          THEN [feedbackDocs EXCEPT ![trCall.editingMessageId] =
                   [@ EXCEPT !.message = trCall.reply, !.timestamp = fbWrites']]
          ELSE feedbackDocs @@
                  (fbWrites' :> FeedbackDoc(TrainerUid, trCall.selectedTrainee,
                                            trCall.reply, "trainer", fbWrites'))
    /\ editingMessageId' = IF trCall.pc = "updateDoc" THEN NoMessage
                           ELSE editingMessageId
    /\ reply' = <<>>
    /\ UNCHANGED <<offTrainer, opCount, hiddenDocs, version, messages, selectedTrainee,
                   hiddenMessageIds, trSub, hiddenFetch, trainerHid>>
    /\ TrainerCallEnded(trCall, IF trCall.pc = "updateDoc" THEN "updated"
                                ELSE "added")

\* handleHideMessage up to its await (part_000 lines 127-136)
HandleHideMessage(i, confirmed) ==
    /\ version = "edit"
    /\ trCall.pc = "idle"
    /\ ~Falsy(selectedTrainee)
    /\ i \in 1..Len(Conversation(selectedTrainee))
    /\ opCount < MaxOps
    /\ opCount' = opCount + 1
    /\ UNCHANGED <<offTrainer, fbStore, version, messages, reply,
                   selectedTrainee, editingMessageId, hiddenMessageIds, trSub,
                   hiddenFetch, trainerHid>>
    /\ LET msg == Conversation(selectedTrainee)[i]
           p == [pc |-> IF msg.sender = "trainer" THEN "deleteDoc"
                        ELSE "addHidden",
                 op |-> "hide", msg |-> msg, messages |-> messages,
                 hiddenMessageIds |-> hiddenMessageIds]
       IN IF ~confirmed
          THEN TrainerCallEnded(p, "returned")
          ELSE /\ trCall' = p
               /\ UNCHANGED lastTr

\* deleteDoc or addDoc(hiddenMessages) of handleHideMessage is applied, and
\* lines 137 and 139 follow with the arrays of the render of the click
HideApply ==
    /\ trCall.pc \in {"deleteDoc", "addHidden"}
    /\ LET msg == trCall.msg
           Others(m) == m.id # msg.id
           key == <<"auto", Cardinality(DOMAIN hiddenDocs) + 1>>
       IN /\ messages' = SelectSeq(trCall.messages, Others)
          /\ IF trCall.pc = "deleteDoc"
             THEN /\ feedbackDocs' = Remove(feedbackDocs, msg.id)
                  /\ UNCHANGED <<hiddenDocs, hiddenMessageIds, trSub,
                                 hiddenFetch, trainerHid>>
             ELSE /\ hiddenDocs' =
                        [k \in DOMAIN hiddenDocs \cup {key} |->
                           IF k = key THEN [trainerId |-> TrainerUid,
                                            messageId |-> msg.id]
                           ELSE hiddenDocs[k]]
                  /\ hiddenMessageIds' = trCall.hiddenMessageIds \cup {msg.id}
                  /\ HiddenEffect(hiddenMessageIds', hiddenFetch.answers)
                  /\ trainerHid' = trainerHid \cup {msg.id}
                  /\ UNCHANGED feedbackDocs
    /\ UNCHANGED <<offTrainer, opCount, fbWrites, version, reply, selectedTrainee,
                   editingMessageId>>
    /\ TrainerCallEnded(trCall, IF trCall.pc = "deleteDoc" THEN "deleted"
                                ELSE "hidden")

\* the awaited operation of handleReply or handleHideMessage is rejected:
\* neither handler has a try around it
TrainerCallReject ==
    /\ trCall.pc # "idle"
    /\ UNCHANGED <<offTrainer, opCount, fbStore, version, messages, reply,
                   selectedTrainee, editingMessageId, hiddenMessageIds, trSub,
                   hiddenFetch, trainerHid>>
    /\ TrainerCallEnded(trCall, "unhandled")

NextTrainer ==
    \/ TrainerSnapshot
    \/ FetchHiddenAnswer
    \/ FetchHiddenDeliver
    \/ FetchHiddenReject
    \/ \E id \in Trainees : SelectTrainee(id)
    \/ \E text \in MessageInputs : SetReply(text)
    \/ \E i \in 1..Len(messages) : HandleEdit(i)
    \/ HandleReply
    \/ ReplyApply
    \/ \E i \in 1..Len(messages), confirmed \in BOOLEAN : HandleHideMessage(i, confirmed)
    \/ HideApply
    \/ TrainerCallReject


(***************************************************************************)
(* Sidebar.tsx, lines 1-155                                                *)
(***************************************************************************)
\* the role of types/index.ts line 9
Roles == {"admin", "trainer", "trainee", "user", "pending"}

\* what useAuth() can hand the component as currentUser: no user, a user
\* without a role, or a user with one (held here by its role)
CurrentUsers == {Null, Undefined} \cup Roles

\* an entry of allMenuItems; restricted is FALSE where it has no roles
MenuItem(id, label, restricted, roles) ==
    [id |-> id, label |-> label, restricted |-> restricted, roles |-> roles]

\* lines 44-66
allMenuItems ==
    << MenuItem("dashboard", "Home", FALSE, {}),
       MenuItem("users", "User Management", TRUE, {"admin"}),
       MenuItem("pending-users", "Pending Users", TRUE, {"admin"}),
       MenuItem("sessions", "Sessions", TRUE, {"admin"}),
       MenuItem("courses", "Course Management", TRUE, {"admin"}),
       MenuItem("grades", "Grades", TRUE, {"admin"}),
       MenuItem("activities", "Activity Logs", TRUE, {"admin"}),
       MenuItem("courses", "My Courses", TRUE, {"trainer"}),
       MenuItem("sessions", "Training Sessions", TRUE, {"trainer"}),
       MenuItem("materials", "Materials", TRUE, {"trainer"}),
       MenuItem("grades", "Trainee Grades", TRUE, {"trainer"}),
       MenuItem("feedback", "Feedback", TRUE, {"trainer"}),
       MenuItem("courses", "My Courses", TRUE, {"trainee"}),
       MenuItem("schedule", "Schedule", TRUE, {"trainee"}),
       MenuItem("resources", "Resources", TRUE, {"trainee"}),
       MenuItem("grades", "Grades", TRUE, {"trainee"}),
       MenuItem("courses-pending", "Browse Courses", TRUE, {"pending"}),
       MenuItem("profile", "Profile", TRUE, {"pending"}),
       MenuItem("feedback", "Send Feedback", TRUE, {"trainee"}) >>

\* line 68: currentUser?.role || 'pending'
RoleOf(user) == IF Falsy(user) THEN "pending" ELSE user

\* the menu without the filter on the roles
menuItems_Unfiltered(role) == allMenuItems

\* line 69
menuItems(role) ==
    LET Allowed(item) == ~item.restricted \/ role \in item.roles
    IN SelectSeq(allMenuItems, Allowed)

NoClick == [role |-> Null]

InitSidebar(users0, widths) ==
    /\ currentUser \in users0
    /\ activeSection = "dashboard"
    /\ isOpen = FALSE
    /\ isMobile \in widths
    /\ menuShown = menuItems(RoleOf(currentUser))
    /\ lastClick = NoClick

\* what the sidebar's actions leave alone
offSidebar == <<userVars, courseVars, enrollVars, feedbackVars, materialVars>>

\* the auth context hands the component another user (sign in, sign out, a
\* role given by an admin) and it renders again
AuthChanged(user) ==
    /\ user # currentUser
    /\ currentUser' = user
    /\ menuShown' = menuItems(RoleOf(user))
    /\ UNCHANGED <<offSidebar, activeSection, isOpen, isMobile, lastClick>>

\* lines 34-35: the resize listener
HandleResize(mobile) ==
    /\ mobile # isMobile
    /\ isMobile' = mobile
    /\ UNCHANGED <<offSidebar, currentUser, activeSection, isOpen, menuShown,
                   lastClick>>

\* lines 131-140: the hamburger button of the mobile layout
OpenMenu ==
    /\ isMobile
    /\ ~isOpen
    /\ isOpen' = TRUE
    /\ UNCHANGED <<offSidebar, currentUser, activeSection, isMobile, menuShown,
                   lastClick>>

\* lines 85-89 and 145-150: the close button and the overlay
CloseMenu ==
    /\ isMobile
    /\ isOpen
    /\ isOpen' = FALSE
    /\ UNCHANGED <<offSidebar, currentUser, activeSection, isMobile, menuShown,
                   lastClick>>

\* lines 96-103: a click on the i-th button of the nav, which is rendered
\* when the sidebar is open or the layout is not mobile (line 78)
MenuClick(i) ==
    /\ isOpen \/ ~isMobile
    /\ i \in 1..Len(menuShown)
    /\ activeSection' = menuShown[i].id
    /\ isOpen' = IF isMobile THEN FALSE ELSE isOpen
    /\ lastClick' = [role |-> RoleOf(currentUser), item |-> menuShown[i]]
    /\ UNCHANGED <<offSidebar, currentUser, isMobile, menuShown>>

NextSidebar ==
    \/ \E user \in CurrentUsers : AuthChanged(user)
    \/ \E mobile \in BOOLEAN : HandleResize(mobile)
    \/ OpenMenu
    \/ CloseMenu
    \/ \E i \in 1..Len(menuShown) : MenuClick(i)


(***************************************************************************)
(* TrainingMaterials (part_000, lines 286-700): the upload queue           *)
(***************************************************************************)
\* how many items one run puts into the upload queue
MaxQueued == 2

\* selectedCourse === '' (line 347): no course is selected
NoCourse == 0

\* The File objects the trainer picks, and file.name of each: f1 and f2 are
\* files of two folders with the same name.
Files == {"f1", "f2", "f3"}
FileName(f) == IF f = "f3" THEN "b" ELSE "a"

\* what one file dialog or one drop hands to handleFiles: one file, or two
\* files of one folder
FileBatches ==
    {<<f>> : f \in Files}
    \cup {p \in Files \X Files : FileName(p[1]) # FileName(p[2])}

\* the texts typed into the description box of a queued item
Descriptions == {"d"}

\* the courses collection when the screen is mounted: two courses of the
\* trainer and one of nobody
MaterialCourses ==
    (1 :> CourseDoc([title |-> <<"T">>, instructorName |-> <<"U">>,
                     startDate |-> 1, endDate |-> 2], TrainerUid, "active"))
    @@ (2 :> CourseDoc([title |-> <<"S">>, instructorName |-> <<"U">>,
                        startDate |-> 1, endDate |-> 2], TrainerUid, "active"))
    @@ (3 :> CourseDoc([title |-> <<"T">>, instructorName |-> <<"X">>,
                        startDate |-> 0, endDate |-> 2], "", "draft"))

NoFiles == [refused |-> FALSE, before |-> <<>>, after |-> <<>>]
NoUpload == [outcome |-> "none"]

\* lines 341-349, before the effects have run
InitMaterials ==
    /\ tmCourses = <<>>
    /\ tmFetch = "pending"
    /\ selectedCourse = NoCourse
    /\ uploadQueue = <<>>
    /\ uploadProgress = {}
    /\ uploadingFiles = {}
    /\ tmUploads = {}
    /\ materialDocs = <<>>
    /\ queuedAs = <<>>
    /\ uploaded = {}
    /\ lastFiles = NoFiles
    /\ lastUp = NoUpload

\* what the screen's actions leave alone
offMaterials == <<userVars, courseVars, enrollVars, feedbackVars, sidebarVars>>

\* lines 364-370: the courses whose instructorId is the trainer's uid
CoursesOfTrainer ==
    LET ids == {id \in DOMAIN courses : courses[id].instructorId = TrainerUid}
        Sorted[S \in SUBSET ids] ==
            IF S = {} THEN <<>>
            ELSE LET least == CHOOSE x \in S : \A y \in S : x <= y
                 IN <<[id |-> least] @@ courses[least]>> \o Sorted[S \ {least}]
    IN Sorted[ids]

\* getDocs of fetchCourses answers: line 370
FetchCourses ==
    /\ tmFetch = "pending"
    /\ tmFetch' = "done"
    /\ tmCourses' = CoursesOfTrainer
    /\ UNCHANGED <<offMaterials, selectedCourse, uploadQueue, uploadProgress,
                   uploadingFiles, tmUploads, materialDocs, queuedAs, uploaded,
                   lastFiles, lastUp>>

\* getDocs is rejected: lines 371-374, the list stays empty
FetchCoursesReject ==
    /\ tmFetch = "pending"
    /\ tmFetch' = "done"
    /\ UNCHANGED <<offMaterials, tmCourses, selectedCourse, uploadQueue,
                   uploadProgress, uploadingFiles, tmUploads, materialDocs,
                   queuedAs, uploaded, lastFiles, lastUp>>

\* the options of the course selector, lines 596-601
CourseOptions == {NoCourse} \cup {tmCourses[i].id : i \in 1..Len(tmCourses)}

\* line 593: setSelectedCourse(e.target.value)
SetSelectedCourse(c) ==
    /\ c \in CourseOptions
    /\ c # selectedCourse
    /\ selectedCourse' = c
    /\ UNCHANGED <<offMaterials, tmCourses, tmFetch, uploadQueue,
                   uploadProgress, uploadingFiles, tmUploads, materialDocs,
                   queuedAs, uploaded, lastFiles, lastUp>>

\* lines 416-420: the items made of the files, numbered as they are queued
QueueItems(files, course, first) ==
    [k \in 1..Len(files) |->
       [item |-> first + k, file |-> files[k], description |-> "",
        courseId |-> course]]

\* handleFiles, lines 411-422 (called by the file input and by the drop)
HandleFiles(files) ==
    /\ Len(queuedAs) + Len(files) <= MaxQueued
    /\ IF selectedCourse = NoCourse
       THEN /\ UNCHANGED <<uploadQueue, queuedAs>>
            /\ lastFiles' = [refused |-> TRUE, before |-> uploadQueue,
                             after |-> uploadQueue]
       ELSE LET added == QueueItems(files, selectedCourse, Len(queuedAs))
            IN /\ uploadQueue' = uploadQueue \o added
               /\ queuedAs' = queuedAs \o [k \in 1..Len(files) |-> selectedCourse]
               /\ lastFiles' = [refused |-> FALSE, before |-> uploadQueue,
                                after |-> uploadQueue \o added]
    /\ UNCHANGED <<offMaterials, tmCourses, tmFetch, selectedCourse,
                   uploadProgress, uploadingFiles, tmUploads, materialDocs,
                   uploaded, lastUp>>

\* line 623: isUploading of a queued item
isUploading(item) == FileName(item.file) \in uploadingFiles

\* updateDescription, lines 429-435; the box is disabled while the item's
\* name is flagged (line 645)
UpdateDescription(index, desc) ==
    /\ index \in 1..Len(uploadQueue)
    /\ ~isUploading(uploadQueue[index])
    /\ uploadQueue[index].description # desc
    /\ uploadQueue' = [uploadQueue EXCEPT ![index].description = desc]
    /\ UNCHANGED <<offMaterials, tmCourses, tmFetch, selectedCourse,
                   uploadProgress, uploadingFiles, tmUploads, materialDocs,
                   queuedAs, uploaded, lastFiles, lastUp>>

\* courses.find(c => c.id === courseId), line 441
FindCourse(courseId) ==
    LET Is(c) == c.id = courseId IN SelectSeq(tmCourses, Is)

\* the end of one upload: what it was started for, the queue before and
\* after, and the flags it leaves
UploadEnded(u, outcome, queueAfter, flagsAfter) ==
    [outcome |-> outcome, item |-> u.item, name |-> FileName(u.file),
     before |-> uploadQueue, after |-> queueAfter, flags |-> flagsAfter]

\* the Send button of a queued item (line 653; disabled while the item's
\* name is flagged): startUpload, lines 437-449
StartUpload(index) ==
    /\ index \in 1..Len(uploadQueue)
    /\ ~isUploading(uploadQueue[index])
    /\ LET it == uploadQueue[index]
           found == FindCourse(it.courseId)
       IN IF found = <<>>
          THEN UNCHANGED <<tmUploads, uploadingFiles>>
          ELSE /\ tmUploads' = tmUploads \cup
                     {[item |-> it.item, file |-> it.file,
                       description |-> it.description, courseId |-> it.courseId,
                       courseName |-> found[1].title, pc |-> "reading"]}
               /\ uploadingFiles' = uploadingFiles \cup {FileName(it.file)}
    /\ UNCHANGED <<offMaterials, tmCourses, tmFetch, selectedCourse,
                   uploadQueue, uploadProgress, materialDocs, queuedAs,
                   uploaded, lastFiles, lastUp>>

\* reader.onprogress, lines 451-456
ReaderProgress(u) ==
    /\ u \in tmUploads
    /\ u.pc = "reading"
    /\ FileName(u.file) \notin uploadProgress
    /\ uploadProgress' = uploadProgress \cup {FileName(u.file)}
    /\ UNCHANGED <<offMaterials, tmCourses, tmFetch, selectedCourse,
                   uploadQueue, uploadingFiles, tmUploads, materialDocs,
                   queuedAs, uploaded, lastFiles, lastUp>>

\* reader.onload, lines 458-472: addDoc is called
ReaderLoad(u) ==
    /\ u \in tmUploads
    /\ u.pc = "reading"
    /\ tmUploads' = (tmUploads \ {u}) \cup {[u EXCEPT !.pc = "addDoc"]}
    /\ UNCHANGED <<offMaterials, tmCourses, tmFetch, selectedCourse,
                   uploadQueue, uploadProgress, uploadingFiles, materialDocs,
                   queuedAs, uploaded, lastFiles, lastUp>>

\* reader.onerror, lines 492-499
ReaderError(u) ==
    /\ u \in tmUploads
    /\ u.pc = "reading"
    /\ tmUploads' = tmUploads \ {u}
    /\ uploadingFiles' = uploadingFiles \ {FileName(u.file)}
    /\ lastUp' = UploadEnded(u, "readFailed", uploadQueue,
                             uploadingFiles \ {FileName(u.file)})
    /\ UNCHANGED <<offMaterials, tmCourses, tmFetch, selectedCourse,
                   uploadQueue, uploadProgress, materialDocs, queuedAs,
                   uploaded, lastFiles>>

\* line 473: prev.filter(f => f.file.name !== file.name)
QueueWithout(queue, u) ==
    LET OtherName(f) == FileName(f.file) # FileName(u.file)
    IN SelectSeq(queue, OtherName)

\* addDoc resolves: lines 461-474, then the finally of lines 478-489
AddDocResolve(u) ==
    /\ u \in tmUploads
    /\ u.pc = "addDoc"
    /\ materialDocs' = Append(materialDocs,
          [name |-> FileName(u.file), description |-> u.description,
           courseId |-> u.courseId, courseName |-> u.courseName,
           trainerId |-> TrainerUid])
    /\ uploaded' = uploaded \cup {u.item}
    /\ uploadQueue' = QueueWithout(uploadQueue, u)
    /\ uploadProgress' = uploadProgress \ {FileName(u.file)}
    /\ uploadingFiles' = uploadingFiles \ {FileName(u.file)}
    /\ tmUploads' = tmUploads \ {u}
    /\ lastUp' = UploadEnded(u, "written", QueueWithout(uploadQueue, u),
                             uploadingFiles \ {FileName(u.file)})
    /\ UNCHANGED <<offMaterials, tmCourses, tmFetch, selectedCourse, queuedAs,
                   lastFiles>>

\* addDoc is rejected: the catch of lines 475-477, then the finally
AddDocReject(u) ==
    /\ u \in tmUploads
    /\ u.pc = "addDoc"
    /\ uploadProgress' = uploadProgress \ {FileName(u.file)}
    /\ uploadingFiles' = uploadingFiles \ {FileName(u.file)}
    /\ tmUploads' = tmUploads \ {u}
    /\ lastUp' = UploadEnded(u, "writeFailed", uploadQueue,
                             uploadingFiles \ {FileName(u.file)})
    /\ UNCHANGED <<offMaterials, tmCourses, tmFetch, selectedCourse,
                   uploadQueue, materialDocs, queuedAs, uploaded, lastFiles>>

NextMaterials ==
    \/ FetchCourses
    \/ FetchCoursesReject
    \/ \E c \in {NoCourse} \cup DOMAIN MaterialCourses : SetSelectedCourse(c)
    \/ \E files \in FileBatches : HandleFiles(files)
    \/ \E index \in 1..MaxQueued, desc \in Descriptions :
          UpdateDescription(index, desc)
    \/ \E index \in 1..MaxQueued : StartUpload(index)
    \/ \E u \in tmUploads :
          \/ ReaderProgress(u)
          \/ ReaderLoad(u)
          \/ ReaderError(u)
          \/ AddDocResolve(u)
          \/ AddDocReject(u)

\* the hook's state around an enrollment document that is already stored
InitEnrollment(docs, reps) ==
    /\ enrollDoc \in docs
    /\ storedDates \in reps
    /\ allCourses = NoRows
    /\ enrollments = Absent
    /\ enrolledCourseIds = <<>>
    /\ enrollSeen = NothingSeen
    /\ listenerRun = NoRun
    /\ lastSnap = NoSnap
    /\ calls = [k \in CallSlots |-> IdleCall]
    /\ lastWrite = NoWrite

InitFeedback ==
    /\ InitStore
    /\ InitTrainee({"search"})
    /\ InitTrainer({"basic"})
    /\ InitSidebar({"admin"}, {FALSE})
    /\ InitMaterials

Init ==
    /\ InitUsers({"admin", "trainee"})
    /\ InitCourses({<<>>}, NoRows)
    /\ InitEnroll({"timestamp"})
    /\ InitFeedback

SpecUsers == Init /\ [][NextUsers]_vars

InitForCourses ==
    /\ InitUsers({"trainee", "trainer"})
    /\ InitCourses(SessionStores, NoRows)
    /\ InitEnroll({"timestamp"})
    /\ InitFeedback

SpecCourses == InitForCourses /\ [][NextCourses]_vars

InitForEnroll ==
    /\ InitUsers({"trainer"})
    /\ InitCourses({<<>>}, EnrollCourses)
    /\ InitEnroll(DateReps)
    /\ InitFeedback

SpecEnroll == InitForEnroll /\ [][NextEnroll]_vars

\* The enrollment document of a trainee with two courses under way: copies
\* made at enrollment of course 2 as it then was (active, ending at tick 1;
\* the course has been edited since) and of course 1 (ending at tick 2).
ListenerEnrollment ==
    [exists |-> TRUE, userId |-> EnrollUid,
     courses |-> <<newEnrollment(2, [CourseRows(EnrollCourses)[2] EXCEPT
                                       !.instructorId = "u3",
                                       !.instructorName = <<"U">>,
                                       !.endDate = 1, !.status = "active"], 0),
                   newEnrollment(1, CourseRows(EnrollCourses)[1], 0)>>]

\* the hook, mounted over that document
InitForListener ==
    /\ InitUsers({"trainer"})
    /\ InitCourses({<<>>}, EnrollCourses)
    /\ InitEnrollment({ListenerEnrollment}, DateReps)
    /\ InitFeedback

SpecListener == InitForListener /\ [][NextEnroll]_vars

\* the trainee's form, over an enrollment that is stored or missing
InitForTrainee ==
    /\ InitUsers({"trainer"})
    /\ InitCourses({<<>>}, EnrollCourses)
    /\ InitEnrollment({Absent, FeedbackEnrollment}, {"timestamp"})
    /\ InitStore
    /\ InitTrainee(Forms)
    /\ InitTrainer({"basic"})
    /\ InitSidebar({"trainee"}, {FALSE})
    /\ InitMaterials

SpecTrainee == InitForTrainee /\ [][NextTrainee]_vars

\* the trainer's screen
InitForTrainer ==
    /\ InitUsers({"trainer"})
    /\ InitCourses({<<>>}, EnrollCourses)
    /\ InitEnrollment({FeedbackEnrollment}, {"timestamp"})
    /\ InitStore
    /\ InitTrainee({"search"})
    /\ InitTrainer(Versions)
    /\ InitSidebar({"trainer"}, {FALSE})
    /\ InitMaterials

SpecTrainer == InitForTrainer /\ [][NextTrainer]_vars

\* the sidebar, whoever is signed in
InitForSidebar ==
    /\ InitUsers({"trainer"})
    /\ InitCourses({<<>>}, EnrollCourses)
    /\ InitEnroll({"timestamp"})
    /\ InitStore
    /\ InitTrainee({"search"})
    /\ InitTrainer({"basic"})
    /\ InitSidebar(CurrentUsers, BOOLEAN)
    /\ InitMaterials

SpecSidebar == InitForSidebar /\ [][NextSidebar]_vars

\* the trainer's TrainingMaterials screen
InitForMaterials ==
    /\ InitUsers({"trainer"})
    /\ InitCourses({<<>>}, MaterialCourses)
    /\ InitEnroll({"timestamp"})
    /\ InitFeedback

SpecMaterials == InitForMaterials /\ [][NextMaterials]_vars

(***************************************************************************)
(* Claims about UserManagement (checked under SpecUsers)                   *)
(***************************************************************************)

\* C1: a handleSaveEdit call by a caller whose stored document is not a
\* super admin's leaves the users document of a different user whose stored
\* role is "admin" unchanged, whatever the edit form holds.
C1_OnlySuperAdminEditsAdmin ==
    (/\ lastOp.op = "saveEdit"
     /\ ~lastOp.callerSuper
     /\ lastOp.target # CurrentUid(lastOp.client)
     /\ lastOp.existed
     /\ lastOp.storedRole = "admin")
    => ~lastOp.changed

\* C2: handleDeleteUser never deletes a document that carries the
\* super-admin flag, never the caller's own document, and a document whose
\* role is "admin" only for a super-admin caller; a refused or declined
\* call writes and deletes nothing.
C2_NeverDeletesSuperAdmin ==
    (lastOp.op = "delete" /\ lastOp.deleted) => ~lastOp.storedSuper
C2_NeverDeletesSelf ==
    (lastOp.op = "delete" /\ lastOp.deleted) => lastOp.target # CurrentUid(lastOp.client)
C2_AdminOnlyBySuperAdmin ==
    (lastOp.op = "delete" /\ lastOp.deleted /\ lastOp.storedRole = "admin")
    => lastOp.callerSuper
C2_RefusedWritesNothing ==
    (lastOp.op = "delete" /\ lastOp.outcome \in {"refused", "declined"})
    => ~lastOp.wrote
C2_DeleteGuards ==
    /\ C2_NeverDeletesSuperAdmin
    /\ C2_NeverDeletesSelf
    /\ C2_AdminOnlyBySuperAdmin
    /\ C2_RefusedWritesNothing

\* C3: a handleAddUser call that asks for role "admin" while the caller's
\* isSuperAdmin state is false (the caller is no super admin, or the fetch
\* of its status has not answered) never gets past the check of line 123:
\* it creates no Auth account and writes no document.  The state is true only
\* for a caller whose stored document carries the flag.
C3_NoAdminByNonSuperAdmin ==
    /\ \A c \in Clients :
         (addProc[c].pc # "idle" /\ addProc[c].form.role = "admin"
            /\ ~addProc[c].localSuper)
         => (addProc[c].pc = "query" /\ ~addProc[c].wrote)
    /\ (lastOp.op = "add" /\ lastOp.role = "admin" /\ ~lastOp.localSuper)
         => (~lastOp.wrote /\ lastOp.uid = ""
             /\ lastOp.outcome \in {"exists", "refusedAdmin", "error"})
    /\ \A c \in Clients : isSuperAdmin[c] => StoredSuper(CurrentUid(c))

\* a request for an admin by a caller not known to be a super admin was
\* refused at line 123
C3_Witness ==
    /\ lastOp.op = "add"
    /\ lastOp.role = "admin"
    /\ ~lastOp.localSuper
    /\ lastOp.outcome = "refusedAdmin"

\* C4: handleAddUser never writes a users document whose e-mail is the
\* e-mail of a users document that exists when it is written.
C4_NoDuplicateEmailWritten ==
    /\ \A c \in Clients : addProc[c].pc # "idle" => ~addProc[c].dup
    /\ lastOp.op = "add" => ~lastOp.dup

(***************************************************************************)
(* Claims about CourseManagement (checked under SpecCourses)               *)
(***************************************************************************)
\* the calendar day of a tick
DayOf(t) == t \div TicksPerDay

CourseWritten == lastOp.op \in {"addCourse", "saveCourse"}
                 /\ lastOp.outcome \in {"added", "updated"}

\* C8: the status computeStatus returned for a course that handleAddCourse or
\* handleSaveEdit wrote, or that the draft listener wrote, is "draft" exactly
\* when no trainer exists; with a trainer it is "completed" exactly when the
\* day of the call is after the day of the end date, and "active" whenever
\* the day of the call lies from the day of the start date to the day of the
\* end date.
C8_ComputeStatus ==
    /\ CourseWritten =>
         LET f == lastOp.form
             today == DayOf(lastOp.clock)
         IN /\ (lastOp.status = "draft") <=> ~lastOp.trainerExists
            /\ lastOp.trainerExists =>
                  /\ (lastOp.status = "completed") <=> (today > DayOf(f.endDate))
                  /\ (DayOf(f.startDate) <= today /\ today <= DayOf(f.endDate))
                        => lastOp.status = "active"
                  /\ lastOp.status \in {"completed", "active"}
    /\ lastRun.outcome # "none" =>
         \A i \in 1..Len(lastRun.drafts) :
            LET d == lastRun.drafts[i] IN
            d.id \in DOMAIN lastRun.written =>
               LET w == lastRun.written[d.id] IN
               /\ (w.status = "completed") <=> (DayOf(w.clock) > DayOf(d.endDate))
               /\ w.status \in {"completed", "active"}

\* a course with a trainer was written as active late on the day of its end
\* date, after the time of day of the end date itself
C8_Witness ==
    /\ CourseWritten
    /\ lastOp.trainerExists
    /\ lastOp.status = "active"
    /\ lastOp.clock > lastOp.form.endDate
    /\ DayOf(lastOp.clock) = DayOf(lastOp.form.endDate)

\* C9: when a run of the draft listener completes, the courses it wrote are
\* exactly the courses its query returned as draft whose normalized
\* instructorName equals the normalized displayName of a user of its
\* snapshot with role "trainer"; each was left by the run's write with
\* instructorId the id of such a user and a status other than "draft".
C9_DraftAutoUpdate ==
    lastRun.outcome = "completed" =>
       LET Matches(d) == {u \in DOMAIN lastRun.users :
                            /\ lastRun.users[u].role = "trainer"
                            /\ normalize(lastRun.users[u].displayName)
                                  = normalize(d.instructorName)}
           draftIds == {lastRun.drafts[i].id : i \in 1..Len(lastRun.drafts)}
       IN /\ \A i \in 1..Len(lastRun.drafts) :
                LET d == lastRun.drafts[i] IN
                /\ d.status = "draft"
                /\ IF Matches(d) # {}
                   THEN /\ d.id \in DOMAIN lastRun.written
                        /\ lastRun.written[d.id].instructorId \in Matches(d)
                        /\ lastRun.written[d.id].status \in {"active", "completed"}
                   ELSE d.id \notin DOMAIN lastRun.written
          /\ DOMAIN lastRun.written \subseteq draftIds

\* a completed run updated one draft and passed over another
C9_Witness ==
    /\ lastRun.outcome = "completed"
    /\ DOMAIN lastRun.written # {}
    /\ \E i \in 1..Len(lastRun.drafts) :
          lastRun.drafts[i].id \notin DOMAIN lastRun.written

\* C10: a course written by handleAddCourse or handleSaveEdit of a screen
\* whose sessions list is the stored one has an end date not before its
\* start date and, when a session exists, dates inside the newest session's
\* trainStart..trainEnd; a call whose dates are refused writes nothing.
C10_DatesChecked ==
    /\ (CourseWritten /\ lastOp.sessions = sessionsStore) =>
          LET f == lastOp.form IN
          /\ f.endDate >= f.startDate
          /\ lastOp.sessions # <<>> =>
                /\ f.startDate >= lastOp.sessions[1].trainStart
                /\ f.endDate <= lastOp.sessions[1].trainEnd
    /\ (lastOp.op \in {"addCourse", "saveCourse"} /\ lastOp.outcome = "invalidDates")
          => ~lastOp.wrote

(***************************************************************************)
(* Claims about useCourses (checked under SpecEnroll)                      *)
(***************************************************************************)
EnrollEnded == lastOp.op = "enroll" /\ lastOp.outcome = "enrolled"

\* C5: the enrollment document never holds two entries with the same
\* courseId, and an enrollCourse call for a course that the document holds
\* when the call is made ends with 'Already enrolled!' (or with the
\* rejection of a backend call) and writes nothing.
C5_NoDuplicateEnrollment ==
    /\ \A i, j \in 1..Len(StoredCourses) :
          StoredCourses[i].courseId = StoredCourses[j].courseId => i = j
    /\ (lastOp.op = "enroll" /\ lastOp.storedHad)
          => lastOp.outcome \in {"Already enrolled!", "rejected"}

C7_LastWriteWins ==
    lastWrite.who # "none" =>
       LET r == lastWrite.read
           b == lastWrite.before
           a == lastWrite.after
           own == lastWrite.arg
       IN /\ lastWrite.who = "enroll" =>
                /\ Len(a) = Len(r) + 1
                /\ \A i \in 1..Len(r) : a[i] = r[i]
                /\ a[Len(a)].courseId = own
          /\ lastWrite.who = "unenroll" =>
                /\ IdSet(a) = IdSet(r) \ {own}
                /\ \A i \in 1..Len(a) : \E j \in 1..Len(r) : a[i] = r[j]
                /\ Len(a) = Cardinality({j \in 1..Len(r) : r[j].courseId # own})
          /\ lastWrite.who = "listener" =>
                /\ Len(a) = Len(r)
                /\ \A i \in 1..Len(r) :
                      /\ a[i].courseId = r[i].courseId
                      /\ a[i].status \in {r[i].status, "completed"}
          /\ \A id \in IdSet(b) \ IdSet(r) :
                id \in IdSet(a) => (lastWrite.who = "enroll" /\ id = own)
          /\ \A id \in IdSet(r) \ IdSet(b) :
                id \notin IdSet(a) => (lastWrite.who = "unenroll" /\ id = own)

\* two writers overlapped: the document held a course the writer had not
\* read, and the write removed it
C7_Witness ==
    /\ lastWrite.who # "none"
    /\ \E id \in IdSet(lastWrite.before) \ IdSet(lastWrite.read) :
          id \notin IdSet(lastWrite.after)

\* an entry that the auto-update is meant to close: active, and ended before t
PastDue(c, t) == c.status = "active" /\ c.endDate < t

\* C11: once the enrollment listener has processed a snapshot (it set the
\* local state), no entry of the stored document or of the local state is
\* active with an end date before the clock the listener read; the entries
\* that were so have become completed, every other entry keeps its status,
\* and the document was written only if an entry changed.
C11_AutoCompleted ==
    lastSnap.outcome \in {"set", "written"} =>
       LET snapshot == lastSnap.snapshot
           local == lastSnap.local
           stored == lastSnap.stored
           t == lastSnap.clock
       IN /\ Len(local) = Len(snapshot) /\ Len(stored) = Len(snapshot)
          /\ \A i \in 1..Len(snapshot) :
                /\ ~PastDue(stored[i], t)
                /\ ~(local[i].status = "active" /\ snapshot[i].endDate < t)
                /\ PastDue(snapshot[i], t) =>
                      /\ local[i].status = "completed"
                      /\ stored[i].status = "completed"
                /\ ~PastDue(snapshot[i], t) =>
                      /\ local[i].status = snapshot[i].status
                      /\ stored[i].status = snapshot[i].status
          /\ lastSnap.outcome = "written" =>
                \E i \in 1..Len(snapshot) : PastDue(snapshot[i], t)

(***************************************************************************)
(* Claims about the feedback screens (SpecTrainee, SpecTrainer)            *)
(***************************************************************************)

\* C12: a rejected backend operation of a handler that writes to the store
\* is caught and reported; it never leaves the handler as an unhandled
\* rejection.  (Here: handleReply and handleHideMessage of TrainerFeedback.)
C12_RejectionsCaught ==
    lastTr.op \in {"reply", "hide"} => lastTr.outcome # "unhandled"

\* the documents added to feedbacks since the start
AddedFeedback == DOMAIN feedbackDocs \ DOMAIN InitFeedbackDocs

\* C14: every document a send handler adds to feedbacks has a message that
\* is not blank and a non-empty trainerId and traineeId, and a send attempt
\* without these writes nothing.
C14_SentFeedbackComplete ==
    /\ \A id \in AddedFeedback :
          /\ ~Blank(feedbackDocs[id].message)
          /\ ~Falsy(feedbackDocs[id].trainerId)
          /\ ~Falsy(feedbackDocs[id].traineeId)
    /\ lastFb.op = "send" /\ lastFb.outcome = "returned" =>
          lastFb.after = lastFb.before

\* the ids of the trainers of availableTrainers
AvailableIds == {availableTrainers[i].id : i \in 1..Len(availableTrainers)}

\* a name the search effect finds no assigned trainer for
NoTrainerNamed(name) ==
    \/ Blank(name)
    \/ \A i \in 1..Len(availableTrainers) :
          toLowerCase(availableTrainers[i].displayName) # toLowerCase(name)

C16_HiddenStaysHidden ==
    /\ \A id \in trainerHid :
          /\ id \in DOMAIN feedbackDocs
          /\ feedbackDocs[id] = InitFeedbackDocs[id]
          /\ \E k \in DOMAIN hiddenDocs :
                hiddenDocs[k] = [trainerId |-> TrainerUid, messageId |-> id]
          /\ \A i \in 1..Len(messages) : messages[i].id # id
    /\ lastTr.op = "hide" /\ lastTr.outcome = "deleted" =>
          lastTr.call.msg.sender = "trainer"

\* C17: a message that handleHideTrainer removed from feedbacks has a copy
\* under its id in hiddenMessages, the handler reaches deleteDoc only with
\* the copy stored, and a call whose setDoc failed leaves feedbacks alone.
C17_CopyBeforeDelete ==
    /\ \A id \in hideRemoved :
          /\ <<"copy", id>> \in DOMAIN hiddenDocs
          /\ hiddenDocs[<<"copy", id>>].id = id
    /\ fbCall.pc = "deleteDoc" /\ fbCall.op = "hide" =>
          <<"copy", fbCall.doc.id>> \in DOMAIN hiddenDocs
    /\ (/\ lastFb.op = "hide"
        /\ lastFb.outcome = "logged"
        /\ <<"copy", lastFb.doc.id>> \notin DOMAIN hiddenDocs) =>
          lastFb.after = lastFb.before

C17_Witness ==
    /\ hideRemoved # {}
    /\ lastFb.op = "hide"
    /\ lastFb.outcome = "done"
    /\ lastFb.doc.id \notin DOMAIN feedbackDocs

\* C18: the permanent delete of the trainee's thread is never invoked on a
\* message the trainer sent.
C18_DeleteOnlyOwnMessages ==
    fbCall.pc = "deleteDoc" /\ fbCall.op = "delete" =>
       fbCall.doc.sender # "trainer"

\* C19: a handleReply that follows handleEdit(msg) changes only the message
\* and the timestamp of document msg.id, adds none, leaves edit mode, and
\* the document is a message of the trainer in the conversation of the
\* trainee who is selected when handleReply runs.
C19_EditUpdatesSelectedConversation ==
    lastTr.op = "reply" /\ lastTr.outcome = "updated" =>
       LET id == lastTr.call.editingMessageId
           before == lastTr.before
           after == lastTr.after
       IN /\ DOMAIN after = DOMAIN before
          /\ \A o \in DOMAIN before \ {id} : after[o] = before[o]
          /\ after[id] = [before[id] EXCEPT !.message = lastTr.call.reply,
                                            !.timestamp = after[id].timestamp]
          /\ lastTr.editingAfter = NoMessage
          /\ before[id].sender = "trainer"
          /\ before[id].traineeId = lastTr.call.selectedTrainee

\* C20: in the trainer-search form handleEdit(fb) followed by handleSend
\* with a changed text replaces the text of document fb.id: the number of
\* feedbacks documents is the same before and after.
C20_EditReplacesText ==
    (/\ lastFb.op = "send"
     /\ lastFb.outcome = "sent"
     /\ lastFb.form = "search"
     /\ lastFb.edited \in DOMAIN lastFb.before
     /\ lastFb.doc.message # lastFb.before[lastFb.edited].message) =>
       /\ Cardinality(DOMAIN lastFb.after) = Cardinality(DOMAIN lastFb.before)
       /\ lastFb.after[lastFb.edited].message = lastFb.doc.message


(***************************************************************************)
(* Claims about the Sidebar (SpecSidebar)                                  *)
(***************************************************************************)

\* the items of allMenuItems that name the role in their roles
ItemsOfRole(role) ==
    LET Named(item) == item.restricted /\ role \in item.roles
    IN SelectSeq(allMenuItems, Named)

\* C13: the menu shown is the Home item and exactly the items whose roles
\* contain the user's role, where a missing user or role counts as
\* "pending"; no item restricted to other roles is shown (nor was one
\* clicked), and the ids of the menu are pairwise distinct.
C13_MenuOfRole ==
    LET role == IF currentUser \in Roles THEN currentUser ELSE "pending"
    IN /\ menuShown = <<allMenuItems[1]>> \o ItemsOfRole(role)
       /\ allMenuItems[1].label = "Home"
       /\ \A i \in 1..Len(menuShown) :
             menuShown[i].restricted => role \in menuShown[i].roles
       /\ \A i, j \in 1..Len(menuShown) :
             menuShown[i].id = menuShown[j].id => i = j
       /\ lastClick # NoClick /\ lastClick.item.restricted =>
             lastClick.role \in lastClick.item.roles

C13_Witness ==
    /\ currentUser = Undefined
    /\ lastClick # NoClick
    /\ lastClick.role = "pending"
    /\ lastClick.item.id = "profile"
    /\ activeSection = "profile"


(***************************************************************************)
(* Claims about TrainingMaterials (checked under SpecMaterials)            *)
(***************************************************************************)
\* the items that are in the upload queue
InQueue == {uploadQueue[i].item : i \in 1..Len(uploadQueue)}

\* C21: handleFiles with no course selected leaves the upload queue as it
\* was; every queued item carries the course that was selected when it was
\* queued; an item that has left the queue has had its own trainingMaterials
\* document written; an upload that failed in reading or in writing leaves
\* the queue as it was; and when an upload has ended, in either outcome,
\* the uploading flag of its file name is cleared.
C21_UploadQueue ==
    /\ lastFiles.refused => lastFiles.after = lastFiles.before
    /\ \A i \in 1..Len(uploadQueue) :
          uploadQueue[i].courseId = queuedAs[uploadQueue[i].item]
    /\ \A n \in 1..Len(queuedAs) : n \notin InQueue => n \in uploaded
    /\ lastUp.outcome \in {"readFailed", "writeFailed"} =>
          lastUp.after = lastUp.before
    /\ lastUp.outcome # "none" => lastUp.name \notin lastUp.flags


C23_AllOrNothing ==
    lastOp.op = "add" =>
       /\ lastOp.account <=> lastOp.userDoc
       /\ lastOp.userDoc <=> lastOp.pendingDoc

\* C23, amended: whenever handleAddUser returns, the records it has made
\* are a prefix of the order account, users/{uid}, pendingUsers/{uid}.  A
\* return with success has made all three; a return with a caught error
\* has made none, the account alone, or the account and users/{uid}, and
\* never pendingUsers/{uid}; a return before the account is created has
\* made none.  The account that was made is not removed again.
C23_RecordsArePrefix ==
    lastOp.op = "add" =>
       /\ "pending" \in lastOp.made => "users" \in lastOp.made
       /\ "users" \in lastOp.made => "auth" \in lastOp.made
       /\ lastOp.outcome = "added" => lastOp.made = {"auth", "users", "pending"}
       /\ lastOp.outcome = "error" => "pending" \notin lastOp.made
       /\ lastOp.outcome \notin {"added", "error"} => lastOp.made = {}
       /\ "auth" \in lastOp.made => lastOp.account

\* a call that was rejected after the account was created: it returns
\* with the account and without the two documents
C23_Witness ==
    /\ lastOp.op = "add"
    /\ lastOp.outcome = "error"
    /\ lastOp.made = {"auth"}
    /\ lastOp.account /\ ~lastOp.userDoc /\ ~lastOp.pendingDoc

=============================================================================
